---- MODULE Spec2Model ----
(***************************************************************************)
(* The melly validators (validate-c1-systems.py, validate-c2-containers.py,*)
(* validate-c3-components.py; validate-init.py under SpecInit) as a state  *)
(* machine.                                                                *)
(*                                                                         *)
(* JSON values.  A JSON string is a sequence of one-character strings      *)
(* (<<"a","-","b">>); the empty string is <<>>.  A key that is not present *)
(* is Absent and a JSON number is Num: one-element sequences whose token   *)
(* is no character.  Words of the closed vocabularies (types, categories,  *)
(* severities) are one-element sequences holding the whole word.           *)
(* Timestamps are records, see TsIso.                                      *)
(***************************************************************************)
EXTENDS Integers, Sequences, FiniteSets, TLC

\* ------------------------------------------------------------------ bounds
\* instants a timestamp can denote: 1..MaxT
MaxT == 4
\* entities per document in the documents of InitRun
MaxEntities == 2
\* the entities of a document of InitIds (an id can occur that many times)
MaxIds == 3
\* the entities of a document of InitGraph (the nodes of its relation graph)
MaxNodes == 3

\* ------------------------------------------------------------ JSON values
Absent == <<"<absent>">>
Num == <<"<num>">>
IsStr(v) == v # Absent /\ v # Num
\* Python truthiness of dict.get(key): None and "" are falsy, 5 is truthy
Truthy(v) == v # Absent /\ v # <<>>
IdxTok == <<"<0>", "<1>", "<2>", "<3>", "<4>", "<5>">>
\* the index idx of enumerate(), used in a message in place of a missing id
Idx(i) == <<"<idx>", IdxTok[i + 1]>>
\* dict.get(key, default)
Get(v, default) == IF v = Absent THEN default ELSE v

\* ------------------------------------------------------------- timestamps
\* k: "absent" (no key), "null" (JSON null), "num" (JSON number), "str".
\* A string is "" (tz "empty"), not ISO-8601 (tz "bad"), or an ISO instant t
\* written with a Z suffix, with a +00:00 suffix, or without offset ("naive").
TsAbsent == [k |-> "absent", t |-> 0, tz |-> "-"]
TsNull == [k |-> "null", t |-> 0, tz |-> "-"]
TsNum == [k |-> "num", t |-> 0, tz |-> "-"]
TsEmpty == [k |-> "str", t |-> 0, tz |-> "empty"]
TsBad == [k |-> "str", t |-> 0, tz |-> "bad"]
TsIso(t, tz) == [k |-> "str", t |-> t, tz |-> tz]
TsForms == {"Z", "+00:00", "naive"}
TsIsoAll == {TsIso(t, tz) : t \in 1..MaxT, tz \in TsForms}
TsAll == {TsAbsent, TsNull, TsNum, TsEmpty, TsBad} \cup TsIsoAll
\* Python truthiness of a timestamp value
TsTruthy(ts) == ts.k \in {"num", "str"} /\ ts.tz # "empty"

\* ts.replace('Z', '+00:00'): AttributeError on a value that is no string
str_replace_Z(ts) ==
  IF ts.k # "str" THEN [exc |-> "AttributeError", s |-> ts]
  ELSE [exc |-> "none", s |-> IF ts.tz = "Z" THEN TsIso(ts.t, "+00:00") ELSE ts]

\* datetime.fromisoformat(s): ValueError on "" and on a string that is not
\* ISO-8601; otherwise an aware datetime (offset given) or a naive one
fromisoformat(s) ==
  IF s.tz \in {"empty", "bad"} THEN [exc |-> "ValueError", aware |-> FALSE, t |-> 0]
  ELSE [exc |-> "none", aware |-> (s.tz # "naive"), t |-> s.t]

\* datetime.fromisoformat(ts.replace('Z', '+00:00'))
parse_ts(ts) ==
  LET r == str_replace_Z(ts) IN
  IF r.exc # "none" THEN [exc |-> r.exc, aware |-> FALSE, t |-> 0]
  ELSE fromisoformat(r.s)

\* datetime_le with < in place of <=
datetime_lt(a, b) ==
  IF a.aware # b.aware THEN [exc |-> "TypeError", v |-> FALSE]
  ELSE [exc |-> "none", v |-> (a.t < b.t)]

\* current_ts <= parent_ts: TypeError between an aware and a naive datetime
datetime_le(a, b) ==
  IF a.aware # b.aware THEN [exc |-> "TypeError", v |-> FALSE]
  ELSE [exc |-> "none", v |-> (a.t <= b.t)]

\* ---------------------------------------------------------------- lineage
\* A document: kind "missing" (no such file), "invalid" (not JSON), "number"
\* (valid JSON that is no object) or "object"; meta: has a metadata object;
\* ts: metadata.timestamp; parent: metadata has a parent object; parent_ts:
\* metadata.parent.timestamp; ents: the entity collection.
LinFail(errs) == [ok |-> FALSE, exc |-> "none", errors |-> errs]
LinRaise(e) == [ok |-> FALSE, exc |-> e, errors |-> <<>>]
LinOk == [ok |-> TRUE, exc |-> "none", errors |-> <<>>]

\* lines 113-129 of validate-c1-systems.py, shared by the three validators
timestamp_ordering(data, parent_ts, detail) ==
  IF data.ts.k = "absent" THEN LinOk
  ELSE
    LET cur == parse_ts(data.ts) IN
    IF cur.exc # "none" THEN LinFail(<<"InvalidTimestampFormat">>)
    ELSE
      LET par == parse_ts(parent_ts) IN
      IF par.exc # "none" THEN LinFail(<<"InvalidTimestampFormat">>)
      ELSE
        LET le == datetime_le(cur, par) IN
        IF le.exc # "none" THEN LinRaise(le.exc)
        ELSE IF le.v THEN LinFail(<<"TimestampNotNewer">> \o detail)
        ELSE LinOk

\* parent_precheck that goes on when the parent file cannot be parsed
parent_precheck_unparsed(data, pfile) ==
  IF pfile.kind = "missing" THEN LinFail(<<"ParentNotFound", "RECOMMENDATION">>)
  ELSE IF pfile.kind = "invalid" THEN LinOk
  ELSE IF pfile.kind = "number" THEN LinRaise("AttributeError")
  ELSE IF ~pfile.meta \/ ~TsTruthy(pfile.ts) THEN LinFail(<<"ParentMissingTimestamp">>)
  ELSE IF data.kind = "number" THEN LinRaise("TypeError")
  ELSE IF ~data.meta THEN LinFail(<<"MissingMetadata">>)
  ELSE LinOk

\* the part of validate_parent_reference the three validators share: parent
\* file present, readable, with a truthy metadata.timestamp; data has metadata
parent_precheck(data, pfile) ==
  IF pfile.kind = "missing" THEN LinFail(<<"ParentNotFound", "RECOMMENDATION">>)
  ELSE IF pfile.kind = "invalid" THEN LinFail(<<"ParentUnreadable">>)
  ELSE IF pfile.kind = "number" THEN LinRaise("AttributeError")
  ELSE IF ~pfile.meta \/ ~TsTruthy(pfile.ts) THEN LinFail(<<"ParentMissingTimestamp">>)
  ELSE IF data.kind = "number" THEN LinRaise("TypeError")
  ELSE IF ~data.meta THEN LinFail(<<"MissingMetadata">>)
  ELSE LinOk

\* validate_parent_reference_c1 that rejects a declared parent timestamp
\* when it equals the parent's
validate_parent_reference_c1_eq(data, pfile) ==
  LET pre == parent_precheck(data, pfile) IN
  IF ~pre.ok THEN pre
  ELSE IF data.parent /\ data.parent_ts.k # "absent" /\ data.parent_ts = pfile.ts
    THEN LinFail(<<"ParentTimestampMismatch", "Expected", "Actual">>)
  ELSE timestamp_ordering(data, pfile.ts, <<"Parent", "Current", "RECOMMENDATION">>)

validate_parent_reference_c1(data, pfile) ==
  LET pre == parent_precheck(data, pfile) IN
  IF ~pre.ok THEN pre
  ELSE IF data.parent /\ data.parent_ts.k # "absent" /\ data.parent_ts # pfile.ts
    THEN LinFail(<<"ParentTimestampMismatch", "Expected", "Actual">>)
  ELSE timestamp_ordering(data, pfile.ts, <<"Parent", "Current", "RECOMMENDATION">>)

validate_parent_reference_c2(data, pfile) ==
  LET pre == parent_precheck(data, pfile) IN
  IF ~pre.ok THEN pre
  ELSE timestamp_ordering(data, pfile.ts, <<"Parent", "Current">>)

validate_parent_reference_c3(data, pfile) ==
  LET pre == parent_precheck(data, pfile) IN
  IF ~pre.ok THEN pre
  ELSE timestamp_ordering(data, pfile.ts, <<"Parent", "Current">>)

validate_parent_reference(l, data, pfile) ==
  CASE l = "c1" -> validate_parent_reference_c1(data, pfile)
    [] l = "c2" -> validate_parent_reference_c2(data, pfile)
    [] l = "c3" -> validate_parent_reference_c3(data, pfile)

\* ----------------------------------------------------------- vocabularies
ALLOWED_SYSTEM_TYPES ==
  {"web-application", "mobile-application", "desktop-application",
   "api-service", "database", "message-broker", "cache", "cdn",
   "external-service", "user-facing", "internal-service",
   "data-store", "integration", "other"}
ALLOWED_CONTAINER_TYPES ==
  {"web-server", "app-server", "database", "cache", "message-broker",
   "spa", "api", "worker", "file-storage", "web-application",
   "application-server", "spa-client", "mobile-app", "desktop-app"}
ALLOWED_COMPONENT_TYPES ==
  {"service", "controller", "repository", "model", "utility",
   "middleware", "view", "component", "config", "facade",
   "factory", "adapter"}
ALLOWED_ENVIRONMENTS == {"browser", "server", "cloud", "edge", "mobile"}
OBSERVATION_CATEGORIES_C1 ==
  {"architectural", "technical", "quality", "security",
   "performance", "scalability", "maintainability", "integration",
   "deployment", "data", "testing", "documentation"}
OBSERVATION_CATEGORIES_C2 ==
  OBSERVATION_CATEGORIES_C1 \cup
  {"technology", "runtime", "communication", "data-storage",
   "authentication", "configuration", "monitoring", "dependencies"}
OBSERVATION_CATEGORIES_C3 ==
  {"design-patterns", "code-quality", "dependencies", "testing",
   "complexity", "maintainability", "code-structure", "error-handling",
   "performance", "security", "documentation", "coupling", "cohesion"}
OBSERVATION_SEVERITIES == {"info", "warning", "critical"}
RELATION_TYPES_C1 ==
  {"http-rest", "http-graphql", "http-soap", "grpc", "websocket",
   "message-queue", "event-stream", "database-query", "database-write",
   "file-io", "dependency", "inheritance", "composition", "aggregation",
   "uses", "calls", "contains", "http", "https", "graphql", "rpc",
   "database-connection", "file-transfer", "authentication", "soap",
   "smtp", "external-api"}
RELATION_TYPES_C2 ==
  {"http-rest", "http-graphql", "grpc", "websocket",
   "database-connection", "database-query", "database-write",
   "database-read-write", "cache-access", "cache-read", "cache-write",
   "cache-read-write", "message-publish", "message-subscribe",
   "message-consumer", "file-read", "file-write", "cdn-fetch", "stream",
   "dependency", "uses", "calls", "contains"}
RELATION_TYPES_C3 ==
  {"dependency", "interface-implementation", "event-publisher",
   "event-subscriber", "uses", "calls", "imports", "injects", "observes",
   "delegates", "provides", "consumes", "inherits", "implements",
   "composes", "aggregates", "notifies", "extends"}
COUPLING_TYPES == {"loose", "tight"}

\* word in LIST, for a value that holds a vocabulary word
InWords(v, words) == IsStr(v) /\ Len(v) = 1 /\ v[1] \in words

\* -------------------------------------------------------------- ID_PATTERN
AlNum == {"a", "b", "c", "g", "h", "t", "p", "0", "1"}
\* ^[a-z0-9]+(-[a-z0-9]+)*$ on the whole of s
IdCore(s) ==
  /\ Len(s) > 0
  /\ \A i \in 1..Len(s) : s[i] \in AlNum \cup {"-"}
  /\ s[1] # "-" /\ s[Len(s)] # "-"
  /\ \A i \in 1..(Len(s) - 1) : ~(s[i] = "-" /\ s[i + 1] = "-")
\* ID_PATTERN.match(s): $ also matches before one trailing newline
ID_PATTERN_match(s) ==
  \/ IdCore(s)
  \/ Len(s) > 1 /\ s[Len(s)] = "\n" /\ IdCore(SubSeq(s, 1, Len(s) - 1))

\* --------------------------------------------------------------- findings
\* a finding: what it is, the entity (id or index) it is about, the offending
\* value, and the path of a reported cycle
F(kind, who, arg) == [kind |-> kind, who |-> who, arg |-> arg, path |-> <<>>]
FCycle(cycle) == [kind |-> "CircularDependency", who |-> <<>>, arg |-> <<>>, path |-> cycle]
Acc0 == [exc |-> "none", errors |-> <<>>, warnings |-> <<>>, seen |-> {}]
Raise(acc, e) == [acc EXCEPT !.exc = e]
AddE(acc, fs) == [acc EXCEPT !.errors = @ \o fs]
AddW(acc, fs) == [acc EXCEPT !.warnings = @ \o fs]
\* the result tuple (len(errors) == 0, errors, warnings) of a check
Result(acc) ==
  [exc |-> acc.exc, valid |-> (acc.errors = <<>>),
   errors |-> acc.errors, warnings |-> acc.warnings]

\* for field in required_fields: if field not in entity: errors.append(...)
RECURSIVE MissingFields(_, _, _)
MissingFields(fields, present, who) ==
  IF fields = <<>> THEN <<>>
  ELSE (IF present[Head(fields)] THEN <<>>
        ELSE <<F("MissingField", who, <<Head(fields)>>)>>)
       \o MissingFields(Tail(fields), present, who)

\* entity.get('id', default)
IdOr(e, default) == Get(e.id, default)

\* the id checks shared by validate_systems/containers/components:
\* pattern, then duplicate, then seen_ids.add
check_id(acc, e) ==
  IF e.id = Absent THEN acc
  ELSE IF ~IsStr(e.id) THEN Raise(acc, "TypeError")
  ELSE
    LET a1 == IF ID_PATTERN_match(e.id) THEN acc
              ELSE AddE(acc, <<F("InvalidIdFormat", e.id, <<>>)>>)
        a2 == IF e.id \in a1.seen THEN AddE(a1, <<F("DuplicateId", e.id, <<>>)>>)
              ELSE a1
    IN [a2 EXCEPT !.seen = @ \cup {e.id}]

check_type(acc, e, allowed) ==
  IF e.type # Absent /\ ~InWords(e.type, allowed)
  THEN AddW(acc, <<F("UnknownType", IdOr(e, <<"unknown">>), e.type)>>)
  ELSE acc
\* ---------------------------------------------------------------- entities
\* An entity (system, container, component; a repository of init.json):
\*   obj          isinstance(entity, dict)
\*   id name type JSON values (Absent when the key is missing)
\*   ref          system_id (C2) / container_id (C3)
\*   description  description (C1) / responsibility (C2, C3); path (init)
\*   repositories observations relations   [k |-> "absent"|"nonlist"|"list", v |-> Seq]
\*   technology runtime structure          records with k "absent"|"nonobj"|"obj"
\* "field in entity" for every key a validator looks up
Present(e) ==
  [id |-> e.id # Absent, name |-> e.name # Absent, type |-> e.type # Absent,
   repositories |-> e.repositories.k # "absent",
   description |-> e.description # Absent,
   responsibility |-> e.description # Absent,
   observations |-> e.observations.k # "absent",
   relations |-> e.relations.k # "absent",
   system_id |-> e.ref # Absent, container_id |-> e.ref # Absent,
   technology |-> e.technology.k # "absent",
   runtime |-> e.runtime.k # "absent",
   structure |-> e.structure.k # "absent"]

\* for repo in repos: if repo not in init_repos: warnings.append(...)
RECURSIVE repos_not_found(_, _, _)
repos_not_found(repos, init_repos, who) ==
  IF repos = <<>> THEN <<>>
  ELSE (IF Head(repos) \in init_repos THEN <<>>
        ELSE <<F("RepositoryNotFound", who, Head(repos))>>)
       \o repos_not_found(Tail(repos), init_repos, who)

\* the body of the for loop of validate_systems, for systems[idx]
system_step(acc, idx, system, init_repos) ==
  IF ~system.obj THEN AddE(acc, <<F("NotAnObject", Idx(idx), <<>>)>>)
  ELSE
    LET who == IdOr(system, Idx(idx))
        a1 == AddE(acc, MissingFields(
                <<"id", "name", "type", "repositories", "description",
                  "observations", "relations">>, Present(system), Idx(idx)))
        a2 == check_id(a1, system)
        a3 == check_type(a2, system, ALLOWED_SYSTEM_TYPES)
        repos == system.repositories
    IN IF a2.exc # "none" THEN a2
       ELSE IF repos.k = "absent" THEN a3
       ELSE IF repos.k = "nonlist"
         THEN AddE(a3, <<F("RepositoriesNotArray", who, <<>>)>>)
       ELSE IF repos.v = <<>>
         THEN AddE(a3, <<F("RepositoriesEmpty", who, <<>>)>>)
       ELSE AddW(a3, repos_not_found(repos.v, init_repos, who))

RECURSIVE systems_loop(_, _, _, _)
systems_loop(acc, idx, systems, init_repos) ==
  IF idx >= Len(systems) \/ acc.exc # "none" THEN acc
  ELSE systems_loop(system_step(acc, idx, systems[idx + 1], init_repos),
                    idx + 1, systems, init_repos)

\* validate_systems without the test `if not systems`
validate_systems_unguarded(systems, init_repos) ==
  Result(systems_loop(Acc0, 0, systems, init_repos))
validate_systems(systems, init_repos) ==
  IF systems = <<>>
  THEN Result(AddE(Acc0, <<F("NoEntities", <<>>, <<>>)>>))
  ELSE Result(systems_loop(Acc0, 0, systems, init_repos))

\* ', '.join(sorted(ids)): TypeError when an id of the parent is no string
join_sorted_raises(ids) == \E x \in ids : ~IsStr(x)

\* the system_id / container_id check of validate_containers/components
check_parent_ref(acc, e, who, parent_ids) ==
  IF e.ref = Absent \/ e.ref \in parent_ids THEN acc
  ELSE IF join_sorted_raises(parent_ids) THEN Raise(acc, "TypeError")
  ELSE AddE(acc, <<F("ParentEntityNotFound", who, e.ref),
                   F("AvailableParents", who, <<>>)>>)

check_technology(acc, e, who) ==
  LET tech == e.technology IN
  IF tech.k = "absent" THEN acc
  ELSE IF tech.k = "nonobj" THEN AddE(acc, <<F("TechnologyNotObject", who, <<>>)>>)
  ELSE AddE(acc,
    (IF tech.primary_language THEN <<>>
     ELSE <<F("MissingField", who, <<"technology.primary_language">>)>>)
    \o (IF tech.framework THEN <<>>
        ELSE <<F("MissingField", who, <<"technology.framework">>)>>))

check_runtime(acc, e, who) ==
  LET rt == e.runtime IN
  IF rt.k = "absent" THEN acc
  ELSE IF rt.k = "nonobj" THEN AddE(acc, <<F("RuntimeNotObject", who, <<>>)>>)
  ELSE
    LET a1 == IF rt.environment = Absent
                THEN AddE(acc, <<F("MissingField", who, <<"runtime.environment">>)>>)
              ELSE IF ~InWords(rt.environment, ALLOWED_ENVIRONMENTS)
                THEN AddW(acc, <<F("UnknownEnvironment", who, rt.environment)>>)
              ELSE acc
        a2 == IF rt.platform THEN a1
              ELSE AddE(a1, <<F("MissingField", who, <<"runtime.platform">>)>>)
    IN IF rt.containerized = "absent"
         THEN AddE(a2, <<F("MissingField", who, <<"runtime.containerized">>)>>)
       ELSE IF rt.containerized = "true" /\ ~rt.container_technology
         THEN AddE(a2, <<F("MissingField", who, <<"runtime.container_technology">>)>>)
       ELSE a2

\* the body of the for loop of validate_containers, for containers[idx]
container_step(acc, idx, container, c1_system_ids) ==
  IF ~container.obj THEN AddE(acc, <<F("NotAnObject", Idx(idx), <<>>)>>)
  ELSE
    LET who == IdOr(container, Idx(idx))
        a1 == AddE(acc, MissingFields(
                <<"id", "name", "type", "system_id", "responsibility",
                  "technology", "runtime">>, Present(container), Idx(idx)))
        a2 == check_id(a1, container)
        a3 == check_type(a2, container, ALLOWED_CONTAINER_TYPES)
        a4 == check_parent_ref(a3, container, who, c1_system_ids)
    IN IF a2.exc # "none" THEN a2
       ELSE IF a4.exc # "none" THEN a4
       ELSE check_runtime(check_technology(a4, container, who), container, who)

RECURSIVE containers_loop(_, _, _, _)
containers_loop(acc, idx, containers, c1_system_ids) ==
  IF idx >= Len(containers) \/ acc.exc # "none" THEN acc
  ELSE containers_loop(container_step(acc, idx, containers[idx + 1], c1_system_ids),
                       idx + 1, containers, c1_system_ids)

validate_containers(containers, c1_system_ids) ==
  IF containers = <<>>
  THEN Result(AddE(Acc0, <<F("NoEntities", <<>>, <<>>)>>))
  ELSE Result(containers_loop(Acc0, 0, containers, c1_system_ids))

check_structure(acc, e, who) ==
  LET st == e.structure IN
  IF st.k = "absent" THEN acc
  ELSE IF st.k = "nonobj" THEN AddE(acc, <<F("StructureNotObject", who, <<>>)>>)
  ELSE
    LET a1 == AddE(acc,
                (IF st.path THEN <<>>
                 ELSE <<F("MissingField", who, <<"structure.path">>)>>)
                \o (IF st.language THEN <<>>
                    ELSE <<F("MissingField", who, <<"structure.language">>)>>))
    IN IF st.files = "empty" THEN AddW(a1, <<F("EmptyFiles", who, <<>>)>>)
       ELSE a1

\* the body of the for loop of validate_components, for components[idx]
component_step(acc, idx, component, c2_container_ids) ==
  IF ~component.obj THEN AddE(acc, <<F("NotAnObject", Idx(idx), <<>>)>>)
  ELSE
    LET who == IdOr(component, Idx(idx))
        a1 == AddE(acc, MissingFields(
                <<"id", "name", "type", "container_id", "responsibility",
                  "structure">>, Present(component), Idx(idx)))
        a2 == check_id(a1, component)
        a3 == check_type(a2, component, ALLOWED_COMPONENT_TYPES)
        a4 == check_parent_ref(a3, component, who, c2_container_ids)
    IN IF a2.exc # "none" THEN a2
       ELSE IF a4.exc # "none" THEN a4
       ELSE check_structure(a4, component, who)

RECURSIVE components_loop(_, _, _, _)
components_loop(acc, idx, components, c2_container_ids) ==
  IF idx >= Len(components) \/ acc.exc # "none" THEN acc
  ELSE components_loop(component_step(acc, idx, components[idx + 1], c2_container_ids),
                       idx + 1, components, c2_container_ids)

validate_components(components, c2_container_ids) ==
  IF components = <<>>
  THEN Result(AddE(Acc0, <<F("NoEntities", <<>>, <<>>)>>))
  ELSE Result(components_loop(Acc0, 0, components, c2_container_ids))
\* ------------------------------------------------------------ observations
\* An observation: [obj, id, category, severity, description]
\* len(x["description"]) < 10: TypeError on a number
short_description(acc, d, f) ==
  IF d = Absent THEN acc
  ELSE IF ~IsStr(d) THEN Raise(acc, "TypeError")
  ELSE IF Len(d) < 10 THEN AddW(acc, <<f>>)
  ELSE acc

\* the body of the inner for loop of validate_observations, for observations[idx]
observation_step(acc, idx, obs, eid, categories) ==
  IF ~obs.obj THEN AddE(acc, <<F("ObservationNotObject", eid, Idx(idx))>>)
  ELSE
    LET present == [id |-> obs.id # Absent, category |-> obs.category # Absent,
                    description |-> obs.description # Absent]
        a1 == AddE(acc, MissingFields(<<"id", "category", "description">>, present, eid))
        a2 == IF obs.id = Absent THEN a1
              ELSE [(IF obs.id \in a1.seen
                     THEN AddE(a1, <<F("DuplicateObservationId", eid, obs.id)>>)
                     ELSE a1) EXCEPT !.seen = @ \cup {obs.id}]
        a3 == IF obs.category # Absent /\ ~InWords(obs.category, categories)
              THEN AddW(a2, <<F("UnknownCategory", eid, obs.category)>>)
              ELSE a2
        a4 == IF obs.severity # Absent /\ ~InWords(obs.severity, OBSERVATION_SEVERITIES)
              THEN AddE(a3, <<F("InvalidSeverity", eid, obs.severity)>>)
              ELSE a3
    IN short_description(a4, obs.description,
                         F("ShortObservationDescription", eid, Get(obs.id, Idx(idx))))

RECURSIVE observations_loop(_, _, _, _, _)
observations_loop(acc, idx, observations, eid, categories) ==
  IF idx >= Len(observations) \/ acc.exc # "none" THEN acc
  ELSE observations_loop(
         observation_step(acc, idx, observations[idx + 1], eid, categories),
         idx + 1, observations, eid, categories)

\* the body of the outer for loop of validate_observations
entity_observations(acc, e, categories) ==
  IF ~e.obj THEN acc
  ELSE
    LET eid == IdOr(e, <<"unknown">>) IN
    IF e.observations.k = "nonlist"
      THEN AddE(acc, <<F("ObservationsNotArray", eid, <<>>)>>)
    ELSE IF e.observations.k = "absent" THEN acc
    ELSE observations_loop([acc EXCEPT !.seen = {}], 0, e.observations.v,
                           eid, categories)

RECURSIVE entities_observations_loop(_, _, _, _)
entities_observations_loop(acc, i, ents, categories) ==
  IF i > Len(ents) \/ acc.exc # "none" THEN acc
  ELSE entities_observations_loop(entity_observations(acc, ents[i], categories),
                                  i + 1, ents, categories)

validate_observations_c1(systems) ==
  Result(entities_observations_loop(Acc0, 1, systems, OBSERVATION_CATEGORIES_C1))
validate_observations_c2(containers) ==
  Result(entities_observations_loop(Acc0, 1, containers, OBSERVATION_CATEGORIES_C2))
validate_observations_c3(components) ==
  Result(entities_observations_loop(Acc0, 1, components, OBSERVATION_CATEGORIES_C3))

\* --------------------------------------------------------------- relations
\* A relation: [obj, id, source, target, type, coupling, description]
\* {e.get("id") for e in entities if isinstance(e, dict) and "id" in e}
RECURSIVE entity_ids(_)
entity_ids(ents) ==
  IF ents = <<>> THEN {}
  ELSE (IF Head(ents).obj /\ Head(ents).id # Absent THEN {Head(ents).id} ELSE {})
       \cup entity_ids(Tail(ents))

RelPresent(rel) ==
  [id |-> rel.id # Absent, source |-> rel.source # Absent,
   target |-> rel.target # Absent, type |-> rel.type # Absent,
   coupling |-> rel.coupling # Absent, description |-> rel.description # Absent]

RAcc0(ids) ==
  [exc |-> "none", errors |-> <<>>, warnings |-> <<>>, seen |-> {},
   graph |-> [n \in ids |-> <<>>], tight |-> 0, total |-> 0]

\* the body of the inner for loop of validate_relations (C1), for relations[idx]
relation_step_c1(acc, idx, rel, eid, system_ids) ==
  IF ~rel.obj THEN AddE(acc, <<F("RelationNotObject", eid, Idx(idx))>>)
  ELSE
    LET rid == Get(rel.id, Idx(idx))
        a1 == AddE(acc, MissingFields(
                <<"id", "source", "target", "type", "description">>,
                RelPresent(rel), eid))
        a2 == IF rel.id = Absent THEN a1
              ELSE [(IF rel.id \in a1.seen
                     THEN AddE(a1, <<F("DuplicateRelationId", eid, rel.id)>>)
                     ELSE a1) EXCEPT !.seen = @ \cup {rel.id}]
        a3 == IF rel.type # Absent /\ ~InWords(rel.type, RELATION_TYPES_C1)
              THEN AddW(a2, <<F("UnknownRelationType", eid, rel.type)>>)
              ELSE a2
        source == rel.source
        target == rel.target
        a4 == IF Truthy(source) /\ Truthy(target)
              THEN
                LET w == (IF source = target
                          THEN <<F("SelfReference", eid, rid)>> ELSE <<>>)
                      \o (IF source \notin system_ids
                          THEN <<F("SourceNotFound", eid, source)>> ELSE <<>>)
                      \o (IF target \notin system_ids
                          THEN <<F("TargetNotFound", eid, target)>> ELSE <<>>)
                    b == AddW(a3, w)
                IN IF source \in DOMAIN b.graph /\ target \in system_ids
                   THEN [b EXCEPT !.graph[source] = Append(@, target)]
                   ELSE b
              ELSE a3
    IN short_description(a4, rel.description,
                         F("ShortRelationDescription", eid, rid))

\* the body of the inner for loop of validate_relations (C2), for relations[idx]
relation_step_c2(acc, idx, rel, eid, container_ids) ==
  IF ~rel.obj THEN AddE(acc, <<F("RelationNotObject", eid, Idx(idx))>>)
  ELSE
    LET a1 == AddE(acc, MissingFields(<<"target", "type", "description">>,
                                      RelPresent(rel), eid))
        a2 == IF rel.type # Absent /\ ~InWords(rel.type, RELATION_TYPES_C2)
              THEN AddW(a1, <<F("UnknownRelationType", eid, rel.type)>>)
              ELSE a1
        a3 == IF rel.target # Absent /\ rel.target \notin container_ids
              THEN AddW(a2, <<F("TargetNotFound", eid, rel.target)>>)
              ELSE a2
    IN short_description(a3, rel.description,
                         F("ShortRelationDescription", eid, <<>>))

\* the body of the inner for loop of validate_relations (C3), for relations[idx]
relation_step_c3(acc0, idx, rel, eid, component_ids) ==
  LET acc == [acc0 EXCEPT !.total = @ + 1] IN
  IF ~rel.obj THEN AddE(acc, <<F("RelationNotObject", eid, Idx(idx))>>)
  ELSE
    LET a1 == AddE(acc, MissingFields(<<"target", "type", "coupling", "description">>,
                                      RelPresent(rel), eid))
        a2 == IF rel.type # Absent /\ ~InWords(rel.type, RELATION_TYPES_C3)
              THEN AddW(a1, <<F("UnknownRelationType", eid, rel.type)>>)
              ELSE a1
        a3 == IF rel.coupling = Absent THEN a2
              ELSE IF ~InWords(rel.coupling, COUPLING_TYPES)
                THEN AddE(a2, <<F("InvalidCoupling", eid, rel.coupling)>>)
              ELSE IF rel.coupling = <<"tight">> THEN [a2 EXCEPT !.tight = @ + 1]
              ELSE a2
        a4 == IF rel.target # Absent /\ rel.target \notin component_ids
              THEN AddW(a3, <<F("TargetNotFound", eid, rel.target)>>)
              ELSE a3
    IN short_description(a4, rel.description,
                         F("ShortRelationDescription", eid, <<>>))

relation_step(l, acc, idx, rel, eid, ids) ==
  CASE l = "c1" -> relation_step_c1(acc, idx, rel, eid, ids)
    [] l = "c2" -> relation_step_c2(acc, idx, rel, eid, ids)
    [] l = "c3" -> relation_step_c3(acc, idx, rel, eid, ids)

RECURSIVE relations_loop(_, _, _, _, _, _)
relations_loop(l, acc, idx, relations, eid, ids) ==
  IF idx >= Len(relations) \/ acc.exc # "none" THEN acc
  ELSE relations_loop(l, relation_step(l, acc, idx, relations[idx + 1], eid, ids),
                      idx + 1, relations, eid, ids)

\* the body of the outer for loop of validate_relations
entity_relations(l, acc, e, ids) ==
  IF ~e.obj THEN acc
  ELSE
    LET eid == IdOr(e, <<"unknown">>) IN
    IF e.relations.k = "nonlist"
      THEN AddE(acc, <<F("RelationsNotArray", eid, <<>>)>>)
    ELSE IF e.relations.k = "absent" THEN acc
    ELSE relations_loop(l, [acc EXCEPT !.seen = {}], 0, e.relations.v, eid, ids)

RECURSIVE entities_relations_loop(_, _, _, _, _)
entities_relations_loop(l, acc, i, ents, ids) ==
  IF i > Len(ents) \/ acc.exc # "none" THEN acc
  ELSE entities_relations_loop(l, entity_relations(l, acc, ents[i], ids),
                               i + 1, ents, ids)

\* ------------------------------------------------------------------ cycles
\* path.index(x) taken to be the start of the path
path_index_root(path, x, i) == 1
\* path.index(x): the first position of x in path
RECURSIVE path_index(_, _, _)
path_index(path, x, i) ==
  IF path[i] = x THEN i ELSE path_index(path, x, i + 1)

\* has_cycle(node, visited, rec_stack, path); visited and rec_stack are the
\* shared sets the calls mutate, path is copied at each call. entered lists
\* the nodes has_cycle was called on, in call order.
RECURSIVE has_cycle(_, _, _, _, _)
RECURSIVE has_cycle_neighbors(_, _, _, _, _, _)
has_cycle(graph, node, visited, rec_stack, path) ==
  LET r == has_cycle_neighbors(graph, node, 1, visited \cup {node},
                               rec_stack \cup {node}, Append(path, node))
  IN [r EXCEPT !.entered = <<node>> \o @]
has_cycle_neighbors(graph, node, i, visited, rec_stack, path) ==
  IF i > Len(graph[node])
  THEN [found |-> FALSE, cycle |-> <<>>, visited |-> visited,
        rec_stack |-> rec_stack \ {node}, entered |-> <<>>]
  ELSE
    LET neighbor == graph[node][i] IN
    IF neighbor \notin visited
    THEN LET r == has_cycle(graph, neighbor, visited, rec_stack, path) IN
         IF r.found THEN r
         ELSE LET rest == has_cycle_neighbors(graph, node, i + 1, r.visited,
                                              r.rec_stack, path)
              IN [rest EXCEPT !.entered = r.entered \o @]
    ELSE IF neighbor \in rec_stack
    THEN [found |-> TRUE,
          cycle |-> SubSeq(path, path_index(path, neighbor, 1), Len(path))
                    \o <<neighbor>>,
          visited |-> visited, rec_stack |-> rec_stack, entered |-> <<>>]
    ELSE has_cycle_neighbors(graph, node, i + 1, visited, rec_stack, path)

\* detect_cycles with a visited set that is forgotten between the roots
RECURSIVE detect_cycles_no_memory(_, _, _, _)
detect_cycles_no_memory(graph, order, i, visited) ==
  IF i > Len(order) THEN [cycles |-> <<>>, entered |-> <<>>]
  ELSE
    LET r == has_cycle(graph, order[i], {}, {}, <<>>)
        rest == detect_cycles_no_memory(graph, order, i + 1, {})
    IN [cycles |-> (IF r.found THEN <<FCycle(r.cycle)>> ELSE <<>>) \o rest.cycles,
        entered |-> r.entered \o rest.entered]
\* detect_cycles without the test `if node not in visited`
RECURSIVE detect_cycles_every_root(_, _, _, _)
detect_cycles_every_root(graph, order, i, visited) ==
  IF i > Len(order) THEN [cycles |-> <<>>, entered |-> <<>>]
  ELSE
    LET r == has_cycle(graph, order[i], visited, {}, <<>>)
        rest == detect_cycles_every_root(graph, order, i + 1, r.visited)
    IN [cycles |-> (IF r.found THEN <<FCycle(r.cycle)>> ELSE <<>>) \o rest.cycles,
        entered |-> r.entered \o rest.entered]
\* for node in graph: if node not in visited: ...; order is the order in
\* which the dict built from the set system_ids yields its keys. cycles are
\* the warnings appended, entered the nodes has_cycle was called on.
RECURSIVE detect_cycles(_, _, _, _)
detect_cycles(graph, order, i, visited) ==
  IF i > Len(order) THEN [cycles |-> <<>>, entered |-> <<>>]
  ELSE IF order[i] \in visited THEN detect_cycles(graph, order, i + 1, visited)
  ELSE
    LET r == has_cycle(graph, order[i], visited, {}, <<>>)
        rest == detect_cycles(graph, order, i + 1, r.visited)
    IN [cycles |-> (IF r.found THEN <<FCycle(r.cycle)>> ELSE <<>>) \o rest.cycles,
        entered |-> r.entered \o rest.entered]

\* the orders in which a set can be iterated
Orders(S) ==
  {o \in [1..Cardinality(S) -> S] : \A x \in S : \E i \in DOMAIN o : o[i] = x}

validate_relations_c1(systems, order) ==
  LET system_ids == entity_ids(systems)
      acc == entities_relations_loop("c1", RAcc0(system_ids), 1, systems, system_ids)
  IN IF acc.exc # "none" THEN Result(acc)
     ELSE Result(AddW(acc, detect_cycles(acc.graph, order, 1, {}).cycles))

validate_relations_c2(containers) ==
  LET container_ids == entity_ids(containers) IN
  Result(entities_relations_loop("c2", RAcc0(container_ids), 1, containers, container_ids))

validate_relations_c3(components) ==
  LET component_ids == entity_ids(components)
      acc == entities_relations_loop("c3", RAcc0(component_ids), 1, components,
                                     component_ids)
  IN IF acc.exc = "none" /\ acc.total > 0 /\ 10 * acc.tight > 3 * acc.total
     THEN Result(AddW(acc, <<F("HighTightCoupling", <<>>, <<>>)>>))
     ELSE Result(acc)
\* ------------------------------------------------------------------- state
VARIABLES
  docs,         \* the four documents: init.json, c1-systems.json, c2-containers.json, c3-components.json
  layer,        \* the validator that is running: "c1", "c2", "c3"; "init" under SpecInit
  pc,           \* the position of main()
  has_errors,   \* main's has_errors
  has_warnings, \* main's has_warnings
  out,          \* the lines written to stderr, in order
  ran,          \* the checks main has called, in order
  exit_code,    \* the exit status of the process, -1 while it runs
  lineage       \* per validator, the outcome of its latest validate_parent_reference
vars == <<docs, layer, pc, has_errors, has_warnings, out, ran, exit_code, lineage>>

Layers == {"c1", "c2", "c3"}
ParentOf(l) == CASE l = "c1" -> "init" [] l = "c2" -> "c1" [] l = "c3" -> "c2"
NextLayer(l) == CASE l = "c1" -> "c2" [] l = "c2" -> "c3" [] l = "c3" -> "c3"

\* error(message) / warning(message) / the summary print / the traceback of
\* an exception that leaves main()
Line(sev, check, f) == [sev |-> sev, check |-> check, f |-> f]
RECURSIVE Lines(_, _, _)
Lines(sev, check, fs) ==
  IF fs = <<>> THEN <<>>
  ELSE <<Line(sev, check, Head(fs))>> \o Lines(sev, check, Tail(fs))

\* for err in errors: error(err) unless err.startswith("RECOMMENDATION:")
RECURSIVE LineageLines(_)
LineageLines(errs) ==
  IF errs = <<>> THEN <<>>
  ELSE <<Line(IF Head(errs) = "RECOMMENDATION" THEN "WARNING" ELSE "ERROR",
              "lineage", F(Head(errs), <<>>, <<>>))>>
       \o LineageLines(Tail(errs))

\* an exception propagates out of main(): traceback, exit status 1
Crash(check, e) ==
  /\ out' = Append(out, Line("TRACEBACK", check, F(e, <<>>, <<>>)))
  /\ exit_code' = 1
  /\ pc' = "done"
  /\ UNCHANGED <<has_errors, has_warnings>>

\* main's handling of the (valid, errors, warnings) a check returned
Collect(check, r, nextpc) ==
  IF r.exc # "none" THEN Crash(check, r.exc)
  ELSE
    /\ has_errors' = (has_errors \/ ~r.valid)
    /\ has_warnings' = (has_warnings \/ r.warnings # <<>>)
    /\ out' = out \o Lines("ERROR", check, r.errors) \o Lines("WARNING", check, r.warnings)
    /\ pc' = nextpc
    /\ UNCHANGED exit_code

\* json.load(sys.stdin) of main()
ReadInput ==
  /\ pc = "start"
  /\ IF docs[layer].kind = "invalid"
     THEN /\ out' = Append(out, Line("ERROR", "input", F("InvalidJSON", <<>>, <<>>)))
          /\ exit_code' = 2
          /\ pc' = "done"
     ELSE /\ pc' = "lineage"
          /\ UNCHANGED <<out, exit_code>>
  /\ UNCHANGED <<docs, layer, has_errors, has_warnings, ran, lineage>>

\* "1. Validate parent reference" of main()
CheckLineage ==
  /\ pc = "lineage"
  /\ LET r == validate_parent_reference(layer, docs[layer], docs[ParentOf(layer)]) IN
     /\ lineage' = [lineage EXCEPT ![layer] =
                      IF r.exc # "none" THEN "raised"
                      ELSE IF r.ok THEN "ok" ELSE "failed"]
     /\ IF r.exc # "none"
        THEN Crash("lineage", r.exc)
        ELSE IF ~r.ok
        THEN /\ has_errors' = TRUE
             /\ out' = out \o LineageLines(r.errors)
             /\ exit_code' = 2
             /\ pc' = "done"
             /\ UNCHANGED has_warnings
        ELSE /\ pc' = "entities"
             /\ UNCHANGED <<has_errors, has_warnings, out, exit_code>>
  /\ ran' = Append(ran, "lineage")
  /\ UNCHANGED <<docs, layer>>

\* data.get("systems", []) and its like
Entities(doc) == IF doc.ents.k = "list" THEN doc.ents.v ELSE <<>>

\* init_repos of main() (C1): the name, else the path, else "" of every
\* repository; [] when the comprehension raises (a repository that is no object)
RECURSIVE repo_names(_)
repo_names(repos) ==
  IF repos = <<>> THEN {}
  ELSE {Get(Head(repos).name, Get(Head(repos).ref, <<>>))} \cup repo_names(Tail(repos))
load_init_repos(pfile) ==
  IF pfile.kind # "object" THEN {}
  ELSE IF \E i \in DOMAIN Entities(pfile) : ~Entities(pfile)[i].obj THEN {}
  ELSE repo_names(Entities(pfile))

\* c1_system_ids / c2_container_ids of main() (C2, C3)
load_parent_ids(pfile) ==
  IF pfile.kind # "object" THEN {} ELSE entity_ids(Entities(pfile))

\* "2. Validate systems / containers / components" of main()
CheckEntities ==
  /\ pc = "entities"
  /\ LET ents == Entities(docs[layer])
         pfile == docs[ParentOf(layer)]
         r == CASE layer = "c1" -> validate_systems(ents, load_init_repos(pfile))
                [] layer = "c2" -> validate_containers(ents, load_parent_ids(pfile))
                [] layer = "c3" -> validate_components(ents, load_parent_ids(pfile))
     IN Collect("entities", r, "observations")
  /\ ran' = Append(ran, "entities")
  /\ UNCHANGED <<docs, layer, lineage>>

\* "3. Validate observations" of main()
CheckObservations ==
  /\ pc = "observations"
  /\ LET ents == Entities(docs[layer])
         r == CASE layer = "c1" -> validate_observations_c1(ents)
                [] layer = "c2" -> validate_observations_c2(ents)
                [] layer = "c3" -> validate_observations_c3(ents)
     IN Collect("observations", r, "relations")
  /\ ran' = Append(ran, "observations")
  /\ UNCHANGED <<docs, layer, lineage>>

\* "4. Validate relations" of main()
CheckRelations ==
  /\ pc = "relations"
  /\ LET ents == Entities(docs[layer]) IN
     \E order \in Orders(entity_ids(ents)) :
       LET r == CASE layer = "c1" -> validate_relations_c1(ents, order)
                  [] layer = "c2" -> validate_relations_c2(ents)
                  [] layer = "c3" -> validate_relations_c3(ents)
       IN Collect("relations", r, "coverage")
  /\ ran' = Append(ran, "relations")
  /\ UNCHANGED <<docs, layer, lineage>>

\* "Check for empty observations/relations (warning)" of main() (C1)
RECURSIVE empty_collections(_)
empty_collections(systems) ==
  IF systems = <<>> THEN <<>>
  ELSE
    LET e == Head(systems)
        who == IdOr(e, <<"unknown">>)
        empty(c) == c.k = "absent" \/ (c.k = "list" /\ c.v = <<>>)
    IN (IF e.obj /\ empty(e.observations) THEN <<F("NoObservations", who, <<>>)>> ELSE <<>>)
       \o (IF e.obj /\ empty(e.relations) THEN <<F("NoRelations", who, <<>>)>> ELSE <<>>)
       \o empty_collections(Tail(systems))

\* the keys of containers_by_system / components_by_container of main()
RECURSIVE covered_parents(_)
covered_parents(ents) ==
  IF ents = <<>> THEN {}
  ELSE (IF Head(ents).obj /\ Truthy(Head(ents).ref) THEN {Head(ents).ref} ELSE {})
       \cup covered_parents(Tail(ents))

RECURSIVE uncovered_findings(_)
uncovered_findings(order) ==
  IF order = <<>> THEN <<>>
  ELSE <<F("ParentHasNoChildren", Head(order), <<>>)>> \o uncovered_findings(Tail(order))

\* the last loop of main() before the exit code: the warnings about empty
\* collections (C1), about parent entities without children (C2, C3)
CheckCoverage ==
  /\ pc = "coverage"
  /\ LET ents == Entities(docs[layer])
         uncovered == load_parent_ids(docs[ParentOf(layer)]) \ covered_parents(ents)
     IN \E order \in (IF layer = "c1" THEN {<<>>} ELSE Orders(uncovered)) :
          LET ws == IF layer = "c1" THEN empty_collections(ents)
                    ELSE uncovered_findings(order)
          IN /\ has_warnings' = (has_warnings \/ ws # <<>>)
             /\ out' = out \o Lines("WARNING", "coverage", ws)
  /\ pc' = "exit"
  /\ ran' = Append(ran, "coverage")
  /\ UNCHANGED <<docs, layer, has_errors, exit_code, lineage>>

\* "Return appropriate exit code" of main()
Exit ==
  /\ pc = "exit"
  /\ LET code == IF has_errors THEN 2 ELSE IF has_warnings THEN 1 ELSE 0
         word == IF has_errors THEN "FAILED with errors"
                 ELSE IF has_warnings THEN "PASSED with warnings" ELSE "PASSED"
     IN /\ exit_code' = code
        /\ out' = Append(out, Line("SUMMARY", "exit", F(word, <<>>, <<>>)))
  /\ pc' = "done"
  /\ UNCHANGED <<docs, layer, has_errors, has_warnings, ran, lineage>>

\* the validator of the next layer is started on the same documents
NextRun ==
  /\ pc = "done"
  /\ layer # "c3"
  /\ docs[NextLayer(layer)].kind # "missing"
  /\ layer' = NextLayer(layer)
  /\ pc' = "start"
  /\ has_errors' = FALSE
  /\ has_warnings' = FALSE
  /\ out' = <<>>
  /\ ran' = <<>>
  /\ exit_code' = -1
  /\ UNCHANGED <<docs, lineage>>

Next ==
  \/ ReadInput
  \/ CheckLineage
  \/ CheckEntities
  \/ CheckObservations
  \/ CheckRelations
  \/ CheckCoverage
  \/ Exit
  \/ NextRun
\* --------------------------------------------------------------- documents
idA == <<"a">>
idB == <<"b">>
Ghost == <<"g">>
LongText == <<"d", "e", "s", "c", "r", "i", "p", "t", "i", "o", "n">>
ShortText == <<"t", "b", "d">>
RepoA == <<"/", "a">>
NoColl == [k |-> "absent", v |-> <<>>]
NonList == [k |-> "nonlist", v |-> <<>>]
List(v) == [k |-> "list", v |-> v]

Obs(id) ==
  [obj |-> TRUE, id |-> id, category |-> <<"security">>, severity |-> <<"info">>,
   description |-> LongText]
Rel(id, source, target) ==
  [obj |-> TRUE, id |-> id, source |-> source, target |-> target,
   type |-> <<"uses">>, coupling |-> <<"loose">>, description |-> LongText]

TechOk == [k |-> "obj", primary_language |-> TRUE, framework |-> TRUE]
TechNone == [k |-> "absent", primary_language |-> FALSE, framework |-> FALSE]
RuntimeOk ==
  [k |-> "obj", environment |-> <<"server">>, platform |-> TRUE,
   containerized |-> "false", container_technology |-> FALSE]
RuntimeNone ==
  [k |-> "absent", environment |-> Absent, platform |-> FALSE,
   containerized |-> "absent", container_technology |-> FALSE]
StructOk == [k |-> "obj", path |-> TRUE, language |-> TRUE, files |-> "nonempty"]
StructNone == [k |-> "absent", path |-> FALSE, language |-> FALSE, files |-> "absent"]

\* a repository {name?, path} of init.json
Repo(name, path) ==
  [obj |-> TRUE, id |-> Absent, name |-> name, type |-> Absent, ref |-> path,
   repositories |-> NoColl, description |-> Absent, technology |-> TechNone,
   runtime |-> RuntimeNone, structure |-> StructNone,
   observations |-> NoColl, relations |-> NoColl]

\* an entity of layer l that draws no finding by itself: its relation goes
\* from a to tgt
Base(l, id, tgt) ==
  [obj |-> TRUE, id |-> id, name |-> <<"n">>,
   type |-> IF l = "c1" THEN <<"database">>
            ELSE IF l = "c2" THEN <<"api">> ELSE <<"service">>,
   ref |-> IF l = "c1" THEN Absent ELSE idA,
   repositories |-> IF l = "c1" THEN List(<<RepoA>>) ELSE NoColl,
   description |-> LongText,
   technology |-> IF l = "c2" THEN TechOk ELSE TechNone,
   runtime |-> IF l = "c2" THEN RuntimeOk ELSE RuntimeNone,
   structure |-> IF l = "c3" THEN StructOk ELSE StructNone,
   observations |-> List(<<Obs(<<"o", "1">>)>>),
   relations |-> List(<<Rel(<<"r", "1">>, idA, tgt)>>)]

Doc(kind, meta, ts, parent, parent_ts, ents) ==
  [kind |-> kind, meta |-> meta, ts |-> ts, parent |-> parent,
   parent_ts |-> parent_ts, ents |-> ents]
NoFile == Doc("missing", FALSE, TsAbsent, FALSE, TsAbsent, NoColl)
NotJson == Doc("invalid", FALSE, TsAbsent, FALSE, TsAbsent, NoColl)
JsonNumber == Doc("number", FALSE, TsAbsent, FALSE, TsAbsent, NoColl)
\* a well-formed document with timestamp ts and entities ents
Good(ts, ents) == Doc("object", TRUE, ts, FALSE, TsAbsent, List(ents))

\* the entities of a well-formed document of layer l ("init": repositories)
GoodEnts(l) ==
  IF l = "init" THEN <<Repo(Absent, RepoA)>>
  ELSE IF l = "c1" THEN <<Base(l, idA, idB), Base(l, idB, idB)>>
  ELSE <<Base(l, idA, idA)>>
LayerNo(l) == CASE l = "init" -> 1 [] l = "c1" -> 2 [] l = "c2" -> 3 [] l = "c3" -> 4
\* the four documents as the generation steps write them, one after the other
GoodDocs == [l \in {"init", "c1", "c2", "c3"} |-> Good(TsIso(LayerNo(l), "Z"), GoodEnts(l))]

InitRunState(l) ==
  /\ layer = l
  /\ pc = "start"
  /\ has_errors = FALSE
  /\ has_warnings = FALSE
  /\ out = <<>>
  /\ ran = <<>>
  /\ exit_code = -1
  /\ lineage = [x \in Layers |-> "none"]
\* the relations an entity of InitRun can carry
RelVariants ==
  LET r == Rel(<<"r", "1">>, idA, idB) IN
  {<<r>>, <<>>, <<r, r>>,
   <<[r EXCEPT !.obj = FALSE]>>,
   <<[r EXCEPT !.id = Absent]>>,
   <<[r EXCEPT !.source = Absent]>>,
   <<[r EXCEPT !.source = Ghost]>>,
   <<[r EXCEPT !.target = Absent]>>,
   <<[r EXCEPT !.target = <<>>]>>,
   <<[r EXCEPT !.target = Ghost]>>,
   <<[r EXCEPT !.target = Ghost, !.source = Absent]>>,
   <<[r EXCEPT !.target = Ghost, !.source = <<>>]>>,
   <<[r EXCEPT !.target = <<"#", "a">>]>>,
   <<[r EXCEPT !.target = <<"h", "t", "t", "p", ":", "a">>]>>,
   <<[r EXCEPT !.target = idA]>>,
   <<[r EXCEPT !.source = idB, !.target = idA]>>,
   <<[r EXCEPT !.type = Absent]>>,
   <<[r EXCEPT !.type = <<"weird">>]>>,
   <<[r EXCEPT !.coupling = Absent]>>,
   <<[r EXCEPT !.coupling = <<"tight">>]>>,
   <<[r EXCEPT !.coupling = <<"weird">>]>>,
   <<[r EXCEPT !.description = Absent]>>,
   <<[r EXCEPT !.description = ShortText]>>,
   <<[r EXCEPT !.description = Num]>>}

\* the observations an entity of InitRun can carry
ObsVariants ==
  LET o == Obs(<<"o", "1">>) IN
  {<<o>>, <<>>, <<o, o>>,
   <<[o EXCEPT !.obj = FALSE]>>,
   <<[o EXCEPT !.id = Absent]>>,
   <<[o EXCEPT !.category = Absent]>>,
   <<[o EXCEPT !.category = <<"weird">>]>>,
   <<[o EXCEPT !.severity = Absent]>>,
   <<[o EXCEPT !.severity = <<"weird">>]>>,
   <<[o EXCEPT !.description = Absent]>>,
   <<[o EXCEPT !.description = ShortText]>>,
   <<[o EXCEPT !.description = Num]>>}

\* the first entity of a document of InitRun: Base with one field changed
Rich(l) ==
  LET b == Base(l, idA, IF l = "c1" THEN idB ELSE idA) IN
  {b, [b EXCEPT !.obj = FALSE], [b EXCEPT !.name = Absent],
   [b EXCEPT !.description = Absent], [b EXCEPT !.description = Num]}
  \cup {[b EXCEPT !.id = v] : v \in {Absent, Num, <<"A">>, <<"a", "-", "b">>, <<"a", "\n">>}}
  \cup {[b EXCEPT !.type = v] : v \in {Absent, <<"weird">>}}
  \cup {[b EXCEPT !.observations = c] :
          c \in {NoColl, NonList} \cup {List(v) : v \in ObsVariants}}
  \cup {[b EXCEPT !.relations = c] :
          c \in {NoColl, NonList} \cup {List(v) : v \in RelVariants}}
  \cup (IF l = "c1"
        THEN {[b EXCEPT !.repositories = c] :
                c \in {NoColl, NonList, List(<<>>), List(<<RepoA, Ghost>>)}}
        ELSE {[b EXCEPT !.ref = v] : v \in {Absent, <<>>, Ghost, idB}})
  \cup (IF l = "c2"
        THEN {[b EXCEPT !.technology = c] :
                c \in {TechNone, [TechNone EXCEPT !.k = "nonobj"],
                       [TechOk EXCEPT !.framework = FALSE]}}
             \cup {[b EXCEPT !.runtime = c] :
                c \in {RuntimeNone, [RuntimeNone EXCEPT !.k = "nonobj"],
                       [RuntimeOk EXCEPT !.environment = <<"weird">>],
                       [RuntimeOk EXCEPT !.environment = Absent],
                       [RuntimeOk EXCEPT !.containerized = "true"],
                       [RuntimeOk EXCEPT !.containerized = "absent"]}}
        ELSE {})
  \cup (IF l = "c3"
        THEN {[b EXCEPT !.structure = c] :
                c \in {StructNone, [StructNone EXCEPT !.k = "nonobj"],
                       [StructOk EXCEPT !.path = FALSE],
                       [StructOk EXCEPT !.files = "empty"]}}
        ELSE {})

IdAt(i) == <<<<"a">>, <<"b">>, <<"c">>, <<"a", "-", "c">>>>[i]
\* the i-th entity (i > 1) of a document of InitRun
Small(l, i) ==
  LET b == Base(l, IdAt(i), IF l = "c1" THEN idB ELSE idA) IN
  {b, [b EXCEPT !.id = idA], [b EXCEPT !.id = Num], [b EXCEPT !.obj = FALSE],
   [b EXCEPT !.relations = List(<<Rel(<<"r", "1">>, IdAt(i), idA)>>)]}

RECURSIVE EntSeqs(_, _)
EntSeqs(l, n) ==
  IF n = 0 THEN {<<>>}
  ELSE IF n = 1 THEN {<<e>> : e \in Rich(l)}
  ELSE {Append(es, e) : es \in EntSeqs(l, n - 1), e \in Small(l, n)}

\* the timestamp the generation steps give the document of layer l
GoodTs(l) == TsIso(LayerNo(l), "Z")

\* n entities of layer l that are well-formed and whose observations and
\* relations arrays are empty
Bare(l, n) ==
  [i \in 1..n |-> [Base(l, IdAt(i), idA) EXCEPT !.observations = List(<<>>),
                                                !.relations = List(<<>>)]]
\* the input documents of InitRun
RunDocs(l) ==
  {Good(GoodTs(l), es) : es \in UNION {EntSeqs(l, n) : n \in 0..MaxEntities}}
  \cup {Good(GoodTs(l), Bare(l, n)) : n \in 1..MaxEntities}
  \cup {NotJson, JsonNumber,
        Doc("object", TRUE, GoodTs(l), FALSE, TsAbsent, NoColl),
        Doc("object", FALSE, TsAbsent, FALSE, TsAbsent, List(GoodEnts(l))),
        Good(GoodTs(ParentOf(l)), GoodEnts(l))}

\* the parent documents of InitRun
RunParents(l) ==
  LET p == ParentOf(l) IN
  {NoFile, NotJson, GoodDocs[p]}
  \cup (IF l = "c1" THEN {Good(GoodTs(p), <<Repo(<<"n">>, RepoA)>>),
                          Good(GoodTs(p), <<Repo(Absent, RepoA), [Repo(Absent, Ghost) EXCEPT !.obj = FALSE]>>)}
        ELSE IF l = "c2" THEN {Good(GoodTs(p), <<Base(p, idA, idA)>>)}
        ELSE {Good(GoodTs(p), <<Base(p, idA, idA), Base(p, idB, idA)>>)})

\* a run of one validator on a document with arbitrary entities
InitRun ==
  \E l \in Layers :
    /\ InitRunState(l)
    /\ \E d \in RunDocs(l), p \in RunParents(l) :
         docs = [GoodDocs EXCEPT ![l] = d, ![ParentOf(l)] = p]

\* the metadata of the documents of InitLineage
LineageDocs(l) ==
  {Doc("object", FALSE, TsAbsent, FALSE, TsAbsent, List(GoodEnts(l))), JsonNumber}
  \cup {Doc("object", TRUE, ts, FALSE, TsAbsent, List(GoodEnts(l))) : ts \in TsAll}
  \cup {Doc("object", TRUE, ts, TRUE, pts, List(GoodEnts(l))) : ts \in TsAll, pts \in TsAll}
LineageParents(l) ==
  {NoFile, NotJson, JsonNumber,
   Doc("object", FALSE, TsAbsent, FALSE, TsAbsent, List(GoodEnts(ParentOf(l))))}
  \cup {Good(ts, GoodEnts(ParentOf(l))) : ts \in TsAll}

\* a run of one validator on a document and a parent with arbitrary metadata
InitLineage ==
  \E l \in Layers :
    /\ InitRunState(l)
    /\ \E d \in LineageDocs(l), p \in LineageParents(l) :
         docs = [GoodDocs EXCEPT ![l] = d, ![ParentOf(l)] = p]

\* the timestamps of the documents of InitChain
ChainTs == {TsAbsent, TsNum, TsBad} \cup {TsIso(t, tz) : t \in 1..MaxT, tz \in {"Z", "naive"}}
\* the three validators run one after the other on one set of four documents
InitChain ==
  /\ InitRunState("c1")
  /\ \E ts \in [{"init", "c1", "c2", "c3"} -> ChainTs] :
       docs = [l \in {"init", "c1", "c2", "c3"} |-> Good(ts[l], GoodEnts(l))]

\* the ids of the entities of InitIds: two well-formed ids, a number, an id
\* that does not match ID_PATTERN
IdChoices == {idA, idB, Num, <<"A">>}
RECURSIVE IdEnts(_, _)
IdEnts(l, n) ==
  IF n = 0 THEN {<<>>}
  ELSE {Append(es, Base(l, id, idA)) : es \in IdEnts(l, n - 1), id \in IdChoices}
\* a run of one validator on a document whose entities differ only in their ids
InitIds ==
  \E l \in Layers :
    /\ InitRunState(l)
    /\ \E n \in 1..MaxIds : \E es \in IdEnts(l, n) :
         docs = [GoodDocs EXCEPT ![l] = Good(GoodTs(l), es)]

\* the relation lists of InitGraph: at most max relations from one entity,
\* to distinct targets among the first n entities
RelId(k) == <<"r", <<"1", "2", "3">>[k]>>
RECURSIVE TargetSeqs(_, _)
TargetSeqs(n, max) ==
  IF max = 0 THEN {<<>>}
  ELSE LET shorter == TargetSeqs(n, max - 1) IN
       shorter \cup {Append(ts, IdAt(j)) :
                       ts \in {t \in shorter : Len(t) = max - 1},
                       j \in 1..n}
Distinct(ts) == \A i, j \in DOMAIN ts : i # j => ts[i] # ts[j]
\* the i-th entity of a document of InitGraph, with one relation per target
Node(l, i, tgts) ==
  [Base(l, IdAt(i), idA) EXCEPT
     !.relations = List([k \in DOMAIN tgts |-> Rel(RelId(k), IdAt(i), tgts[k])])]
RECURSIVE GraphEnts(_, _, _)
GraphEnts(l, n, i) ==
  IF i = 0 THEN {<<>>}
  ELSE {Append(es, Node(l, i, ts)) :
          es \in GraphEnts(l, n, i - 1),
          ts \in {t \in TargetSeqs(n, IF i = 1 THEN 2 ELSE 1) : Distinct(t)}}
\* a run of one validator on a document whose entities carry a relation graph
InitGraph ==
  \E l \in Layers :
    /\ InitRunState(l)
    /\ \E n \in 1..MaxNodes : \E es \in GraphEnts(l, n, n) :
         docs = [GoodDocs EXCEPT ![l] = Good(GoodTs(l), es)]

Init == InitRun
Spec == Init /\ [][Next]_vars
SpecLineage == InitLineage /\ [][Next]_vars
SpecChain == InitChain /\ [][Next]_vars
SpecIds == InitIds /\ [][Next]_vars
SpecGraph == InitGraph /\ [][Next]_vars
\* ------------------------------------------------------------------ claims
InRan(c) == \E i \in DOMAIN ran : ran[i] = c
Done == pc = "done"
Data == docs[layer]
ParentDoc == docs[ParentOf(layer)]
ErrorLines == {i \in DOMAIN out : out[i].sev = "ERROR"}
WarningLines == {i \in DOMAIN out : out[i].sev = "WARNING"}
\* the lineage check of the running validator returned ok / returned a failure
LineageOk == InRan("lineage") /\ lineage[layer] = "ok"
LineageFailed == InRan("lineage") /\ lineage[layer] = "failed"
\* an ISO-8601 timestamp; two of them are ordered when both carry an offset
\* or neither does
IsIso(ts) == ts.k = "str" /\ ts.tz \in TsForms
HasOffset(ts) == ts.tz \in {"Z", "+00:00"}
Comparable(a, b) == IsIso(a) /\ IsIso(b) /\ HasOffset(a) = HasOffset(b)
Later(a, b) == Comparable(a, b) /\ a.t > b.t
\* the ids of the entities of a document
IdsOf(doc) ==
  {doc.ents.v[i].id : i \in {j \in DOMAIN doc.ents.v :
                               doc.ents.v[j].obj /\ doc.ents.v[j].id # Absent}}
DownstreamChecks == {"entities", "observations", "relations", "coverage"}
\* the run ended through an exception that left main()
Raised == \E i \in DOMAIN out : out[i].sev = "TRACEBACK"

\* C1: in a run that got past the lineage check, the exit code is 2 iff an
\* error finding was recorded, 1 iff no error but a warning was recorded,
\* and 0 iff there is no finding at all.
C1_ExitCodeByFindings ==
  (Done /\ LineageOk) =>
    /\ (exit_code = 2) <=> (ErrorLines # {})
    /\ (exit_code = 1) <=> (ErrorLines = {} /\ WarningLines # {})
    /\ (exit_code = 0) <=> (ErrorLines = {} /\ WarningLines = {})

\* C2: when the input is not valid JSON, the parent document is missing or
\* unparseable, or the lineage check fails, the run ends with exit code 2 and
\* none of the entity, observation, relation or coverage checks is executed
\* nor emits a finding.
C2_InputAndLineageFailuresAreTerminal ==
  (\/ Data.kind = "invalid"
   \/ ParentDoc.kind \in {"missing", "invalid"}
   \/ LineageFailed)
  => /\ \A c \in DownstreamChecks : ~InRan(c)
     /\ \A i \in DOMAIN out : out[i].check \notin DownstreamChecks
     /\ pc \in {"start", "lineage", "done"}
     /\ Done => exit_code = 2
C2_Witness ==
  /\ Done /\ LineageFailed /\ exit_code = 2
  /\ ParentDoc.kind = "object" /\ ErrorLines # {}

\* C3: whenever the lineage check returns ok, the document has a
\* metadata.timestamp and it is strictly greater than its parent's.
C3_LineageOkImpliesNewer ==
  LineageOk => Later(Data.ts, ParentDoc.ts)

C6_DeclaredParentMismatchFails ==
  (InRan("lineage") /\ Data.kind = "object" /\ Data.meta /\ Data.parent
   /\ Data.parent_ts # TsAbsent
   /\ ParentDoc.kind = "object" /\ ParentDoc.meta /\ ParentDoc.ts # TsAbsent
   /\ Data.parent_ts # ParentDoc.ts)
  => /\ lineage[layer] = "failed"
     /\ Done /\ exit_code = 2

\* C7: when the C1, C2 and C3 validators each pass their lineage check on one
\* set of four documents, timestamp(init) < timestamp(C1) < timestamp(C2) <
\* timestamp(C3) and the four timestamps are present.
C7_LineageChainIsTotalOrder ==
  (\A l \in Layers : lineage[l] = "ok")
  => /\ Later(docs["c1"].ts, docs["init"].ts)
     /\ Later(docs["c2"].ts, docs["c1"].ts)
     /\ Later(docs["c3"].ts, docs["c2"].ts)

\* C8: for every container whose system_id is not a C1 system id, and every
\* component whose container_id is not a C2 container id, the validator
\* records an error (not a warning) and the run exits with code 2.
C8_UnresolvedParentIsError ==
  (Done /\ layer \in {"c2", "c3"} /\ InRan("entities"))
  => \A i \in DOMAIN Entities(Data) :
       LET e == Entities(Data)[i] IN
       (e.obj /\ e.ref # Absent /\ e.ref \notin IdsOf(ParentDoc))
       => /\ \E j \in ErrorLines :
               out[j].f.kind = "ParentEntityNotFound" /\ out[j].f.arg = e.ref
          /\ ~\E j \in WarningLines : out[j].f.kind = "ParentEntityNotFound"
          /\ exit_code = 2

\* the names under which main() of the C1 validator knows the repositories
InitRepoNames ==
  {Get(ParentDoc.ents.v[i].name, ParentDoc.ents.v[i].ref) : i \in DOMAIN ParentDoc.ents.v}
\* C9: for every C1 system that lists a repository which is not among the
\* repositories of the init document, an error is recorded and the run exits
\* with code 2 (stated for the runs in which no check raises).
C9_UnknownRepositoryIsError ==
  (Done /\ ~Raised /\ layer = "c1" /\ InRan("entities") /\ ParentDoc.kind = "object")
  => \A i \in DOMAIN Entities(Data) :
       LET e == Entities(Data)[i] IN
       (e.obj /\ e.repositories.k = "list") =>
         \A k \in DOMAIN e.repositories.v :
           e.repositories.v[k] \notin InitRepoNames
           => /\ \E j \in ErrorLines :
                   out[j].f.kind = "RepositoryNotFound"
                   /\ out[j].f.arg = e.repositories.v[k]
              /\ exit_code = 2

\* a reference that looks external: starts with http or contains '#'
LooksExternal(s) ==
  \/ Len(s) >= 4 /\ SubSeq(s, 1, 4) = <<"h", "t", "t", "p">>
  \/ \E i \in DOMAIN s : s[i] = "#"
\* C10: for every relation whose target is present, is no entity id of the
\* layer and does not look external, the relation check reports a warning
\* for that target and never an error, whatever the other fields of the
\* relation (stated for the runs in which no check raises).
C10_UnresolvedTargetIsWarning ==
  (Done /\ ~Raised /\ InRan("relations"))
  => \A i \in DOMAIN Entities(Data) :
       LET e == Entities(Data)[i] IN
       (e.obj /\ e.relations.k = "list") =>
         \A k \in DOMAIN e.relations.v :
           LET rel == e.relations.v[k] IN
           (rel.obj /\ IsStr(rel.target) /\ rel.target # <<>>
            /\ rel.target \notin IdsOf(Data) /\ ~LooksExternal(rel.target))
           => /\ \E j \in WarningLines :
                   out[j].f.kind = "TargetNotFound" /\ out[j].f.arg = rel.target
              /\ ~\E j \in ErrorLines :
                   out[j].f.kind = "TargetNotFound" /\ out[j].f.arg = rel.target

\* the relations of an entity, as the relation check walks them
RelsOf(e) == IF e.obj /\ e.relations.k = "list" THEN e.relations.v ELSE <<>>
\* the observations of an entity, as the observation check walks them
ObsOf(e) == IF e.obj /\ e.observations.k = "list" THEN e.observations.v ELSE <<>>
\* the lines that report an unresolved source or target v
NotFoundLines(v) ==
  {j \in DOMAIN out : /\ out[j].f.kind \in {"SourceNotFound", "TargetNotFound"}
                      /\ out[j].f.arg = v}
\* C11: a relation source or target that looks external (starts with http,
\* or contains '#') draws no 'not found' warning or error, although it is no
\* entity id of the layer (stated for the runs in which no check raises).
C11_ExternalReferenceIsAccepted ==
  (Done /\ ~Raised /\ InRan("relations"))
  => \A i \in DOMAIN Entities(Data) :
       \A k \in DOMAIN RelsOf(Entities(Data)[i]) :
         LET rel == RelsOf(Entities(Data)[i])[k] IN
         rel.obj =>
           /\ (IsStr(rel.target) /\ LooksExternal(rel.target))
                => NotFoundLines(rel.target) = {}
           /\ (IsStr(rel.source) /\ LooksExternal(rel.source))
                => NotFoundLines(rel.source) = {}

\* the number of entities of the document that carry the id v
Occurrences(doc, v) ==
  Cardinality({i \in DOMAIN Entities(doc) :
                 Entities(doc)[i].obj /\ Entities(doc)[i].id = v})
\* the duplicate-ID errors the run printed for the id v
DuplicateLines(v) ==
  {j \in ErrorLines : out[j].f.kind = "DuplicateId" /\ out[j].f.who = v}
\* C12: when an entity id occurs k times among the entities of the document,
\* the entity check reports exactly k-1 duplicate-ID errors for that id.
C12_OneDuplicateErrorPerRepeat ==
  (Done /\ InRan("entities"))
  => \A v \in IdsOf(Data) :
       IsStr(v) => Cardinality(DuplicateLines(v)) = Occurrences(Data, v) - 1

\* the C1 document of scenario C: systems a, b, c with a->b, b->c, c->a
ThreeCycle ==
  <<Node("c1", 1, <<IdAt(2)>>), Node("c1", 2, <<IdAt(3)>>), Node("c1", 3, <<IdAt(1)>>)>>
\* the lines that report a cycle
CycleLines == {j \in DOMAIN out : out[j].f.kind = "CircularDependency"}
\* C13: on the C1 document with systems a, b, c (in that order) and relations
\* a->b, b->c, c->a, and no other finding, the run reports exactly one cycle,
\* with path [a, b, c, a], as a warning, and exits with code 1.
C13_ThreeCycleReportedFromFirstSystem ==
  (Done /\ layer = "c1" /\ Entities(Data) = ThreeCycle /\ InRan("relations"))
  => /\ Cardinality(CycleLines) = 1
     /\ \A j \in CycleLines :
          /\ out[j].sev = "WARNING"
          /\ out[j].f.path = <<IdAt(1), IdAt(2), IdAt(3), IdAt(1)>>
     /\ ErrorLines = {}
     /\ exit_code = 1

\* the edges of the relation graph of the document whose endpoints are both
\* entity ids of the document
KnownEdges(doc) ==
  {<<s, t>> \in IdsOf(doc) \X IdsOf(doc) :
     \E i \in DOMAIN Entities(doc) :
       \E k \in DOMAIN RelsOf(Entities(doc)[i]) :
         LET e == Entities(doc)[i]
             rel == RelsOf(e)[k]
         IN rel.obj /\ rel.target = t
            /\ s = (IF rel.source # Absent THEN rel.source ELSE e.id)}
\* t is reached from s over at most n edges (at least one)
RECURSIVE Reaches(_, _, _, _)
Reaches(edges, s, t, n) ==
  /\ n > 0
  /\ \/ <<s, t>> \in edges
     \/ \E m \in {e[2] : e \in {x \in edges : x[1] = s}} : Reaches(edges, m, t, n - 1)
\* the graph has a cycle through at least two entities
HasProperCycle(doc) ==
  LET edges == KnownEdges(doc)
      n == Cardinality(IdsOf(doc))
  IN \E s, t \in IdsOf(doc) :
       s # t /\ Reaches(edges, s, t, n) /\ Reaches(edges, t, s, n)
\* C14: in each of the three validators, when the relation graph restricted
\* to edges between known entity ids contains a cycle, the run reports a
\* cycle warning (stated for the runs in which no check raises).
C14_CycleIsReportedInEveryLayer ==
  (Done /\ ~Raised /\ InRan("relations") /\ HasProperCycle(Data))
  => \E j \in CycleLines : out[j].sev = "WARNING"

\* the adjacency lists validate_relations (C1) builds for the document
RelationGraph(doc) ==
  entities_relations_loop("c1", RAcc0(entity_ids(Entities(doc))), 1,
                          Entities(doc), entity_ids(Entities(doc))).graph
\* the set of the cycle paths in a sequence of findings
PathSet(fs) == {fs[i].path : i \in DOMAIN fs}
\* C15: the set of cycles the C1 run reported is the set a second run of the
\* cycle detector on the same graph reports, whatever order the second run
\* takes over the nodes.
C15_CycleDetectorIsRepeatable ==
  (Done /\ ~Raised /\ layer = "c1" /\ InRan("relations"))
  => \A order \in Orders(IdsOf(Data)) :
       PathSet(detect_cycles(RelationGraph(Data), order, 1, {}).cycles)
         = {out[j].f.path : j \in CycleLines}

\* the parent document all of whose entities are referred to by Bare(l, n)
CoveredParent(l) ==
  IF l = "c2" THEN Good(GoodTs("c1"), <<Base("c1", idA, idA)>>)
  ELSE GoodDocs[ParentOf(l)]
\* C16: for a schema-valid document, of any layer and any number of entities,
\* whose entities have zero relations and zero observations, the run reports
\* zero errors and exactly two warnings.
C16_BareDocumentDrawsTwoWarnings ==
  (/\ Done /\ InRan("coverage")
   /\ \E n \in 1..(MaxEntities + 1) : Data = Good(GoodTs(layer), Bare(layer, n))
   /\ ParentDoc = CoveredParent(layer))
  => /\ ErrorLines = {}
     /\ Cardinality(WarningLines) = 2

\* the lines about the collection c ("observations", "relations") of the
\* entity at position i being absent: the warning, and the error
AbsenceWarnings(i, c) ==
  {j \in WarningLines :
     /\ out[j].f.kind = (IF c = "observations" THEN "NoObservations" ELSE "NoRelations")
     /\ out[j].f.who = IdOr(Entities(Data)[i], <<"unknown">>)}
AbsenceErrors(i, c) ==
  {j \in ErrorLines :
     /\ out[j].f.kind = "MissingField" /\ out[j].f.arg = <<c>>
     /\ out[j].f.who = Idx(i - 1)}
\* C17: for every entity whose observations array or relations array is
\* absent, the validator reports a warning for the absence and no error, in
\* C1, C2 and C3 alike (stated for the runs in which no check raises).
C17_AbsentCollectionIsWarning ==
  (Done /\ ~Raised /\ InRan("coverage"))
  => \A i \in DOMAIN Entities(Data) :
       LET e == Entities(Data)[i] IN
       e.obj =>
         /\ e.observations.k = "absent"
              => /\ AbsenceWarnings(i, "observations") # {}
                 /\ AbsenceErrors(i, "observations") = {}
         /\ e.relations.k = "absent"
              => /\ AbsenceWarnings(i, "relations") # {}
                 /\ AbsenceErrors(i, "relations") = {}

\* the findings about a value outside its closed enum
EnumFindings ==
  {"UnknownType", "UnknownCategory", "InvalidSeverity", "UnknownRelationType",
   "InvalidCoupling", "UnknownEnvironment"}
EnumLines == {j \in DOMAIN out : out[j].f.kind \in EnumFindings}
\* C18: a value outside its closed enum is reported as a warning and never as
\* an error, and a run whose only findings are about such values exits with
\* code 1 (stated for the runs in which no check raises).
C18_UnknownEnumIsWarning ==
  (Done /\ ~Raised)
  => /\ \A j \in EnumLines : out[j].sev = "WARNING"
     /\ (EnumLines # {} /\ ErrorLines \cup WarningLines = EnumLines)
          => exit_code = 1

\* the document holds a field of the wrong type: an entity that is no object,
\* an id or a description that is no string, observations or relations that
\* is no array
WrongType(doc) ==
  \E i \in DOMAIN Entities(doc) :
    LET e == Entities(doc)[i] IN
    \/ ~e.obj
    \/ e.id # Absent /\ ~IsStr(e.id)
    \/ e.description # Absent /\ ~IsStr(e.description)
    \/ e.observations.k = "nonlist"
    \/ e.relations.k = "nonlist"
    \/ \E k \in DOMAIN ObsOf(e) :
         ObsOf(e)[k].obj /\ ObsOf(e)[k].description # Absent
         /\ ~IsStr(ObsOf(e)[k].description)
    \/ \E k \in DOMAIN RelsOf(e) :
         RelsOf(e)[k].obj /\ RelsOf(e)[k].description # Absent
         /\ ~IsStr(RelsOf(e)[k].description)
\* C19: a run on a document that holds a field of the wrong type records an
\* error and ends with exit code 2, never with 0 or 1 and never through an
\* unhandled failure.
C19_WrongTypeIsStructuralError ==
  (Done /\ InRan("entities") /\ WrongType(Data))
  => /\ ~Raised
     /\ ErrorLines # {}
     /\ exit_code = 2

\* the summary lines of the run
SummaryLines == {j \in DOMAIN out : out[j].sev = "SUMMARY"}
SummaryFor(code) ==
  CASE code = 0 -> "PASSED"
    [] code = 1 -> "PASSED with warnings"
    [] code = 2 -> "FAILED with errors"
    [] OTHER -> "none"
\* C20: every run, whatever its outcome (invalid input and lineage failure
\* included), emits exactly one summary line, as its last line, and the line
\* agrees with the exit code (stated for the runs in which no check raises).
C20_OneSummaryLineLast ==
  (Done /\ ~Raised)
  => /\ SummaryLines = {Len(out)}
     /\ Len(out) > 0
     /\ out[Len(out)].f.kind = SummaryFor(exit_code)

\* the pairs (source, target) of the relations of a C1 document whose source
\* and target are both system ids of the document
RelationEdges(doc) ==
  {<<s, t>> \in IdsOf(doc) \X IdsOf(doc) :
     \E i \in DOMAIN Entities(doc) :
       \E k \in DOMAIN RelsOf(Entities(doc)[i]) :
         LET rel == RelsOf(Entities(doc)[i])[k] IN
         rel.obj /\ rel.source = s /\ rel.target = t}
\* C24: every cycle path the C1 run reports is a real cycle of the relation
\* graph: it starts and ends at the same node, no other node repeats, every
\* consecutive pair is a relation between two known system ids, and every
\* node on it is a known system id.
C24_ReportedCycleIsReal ==
  (layer = "c1" /\ InRan("relations"))
  => \A j \in CycleLines :
       LET p == out[j].f.path IN
       /\ Len(p) >= 2
       /\ p[1] = p[Len(p)]
       /\ Distinct(SubSeq(p, 1, Len(p) - 1))
       /\ \A i \in 1..(Len(p) - 1) : <<p[i], p[i + 1]>> \in RelationEdges(Data)
       /\ \A i \in DOMAIN p : p[i] \in IdsOf(Data)
C24_Witness ==
  /\ Done /\ layer = "c1"
  /\ <<IdAt(1), IdAt(2)>> \in RelationEdges(Data)
  /\ \E j \in CycleLines : out[j].f.path = <<IdAt(2), IdAt(3), IdAt(2)>>

\* the rotations of a cycle path (its last element repeats its first)
Rotations(p) ==
  {SubSeq(p, i, Len(p) - 1) \o SubSeq(p, 1, i) : i \in 1..(Len(p) - 1)}
\* C25: within one C1 run no two circular-dependency warnings describe the
\* same cycle (the same nodes in the same cyclic order, up to rotation).
C25_CycleReportedAtMostOnce ==
  (layer = "c1" /\ InRan("relations"))
  => \A j, k \in CycleLines :
       j # k => out[k].f.path \notin Rotations(out[j].f.path)
C25_Witness ==
  /\ Done /\ layer = "c1"
  /\ Cardinality(CycleLines) >= 2
  /\ \E j \in CycleLines : Len(out[j].f.path) >= 3

\* C26: over the whole detection, whatever the order of the DFS roots,
\* has_cycle is called at most once on each node, so the number of calls is
\* at most the number of entities.
C26_EachNodeEnteredOnce ==
  (layer = "c1" /\ InRan("relations"))
  => \A order \in Orders(IdsOf(Data)) :
       LET e == detect_cycles(RelationGraph(Data), order, 1, {}).entered IN
       /\ Distinct(e)
       /\ \A i \in DOMAIN e : e[i] \in IdsOf(Data)
       /\ Len(e) <= Len(Entities(Data))
C26_Witness ==
  /\ Done /\ layer = "c1" /\ CycleLines # {}
  /\ \E x \in IdsOf(Data) : <<x, x>> \in RelationEdges(Data)
  /\ Cardinality(IdsOf(Data)) = 3
  /\ \E order \in Orders(IdsOf(Data)) :
       Len(detect_cycles(RelationGraph(Data), order, 1, {}).entered) = 3

\* the checks main() of a layer validator calls once the lineage check passed
AllChecks == <<"lineage", "entities", "observations", "relations", "coverage">>
\* C22: in a run whose lineage check passed, the entity check, the
\* observation check and the relation check are executed, in that order, and
\* each runs to completion, whatever errors an earlier check produced.
C22_ChecksRunToCompletion ==
  (Done /\ LineageOk) => (ran = AllChecks /\ ~Raised)

\* C27: when the entity collection of the document is empty or absent, the
\* entity check reports exactly one document-level error, the observation and
\* relation checks run and report no error, and the run exits with code 2.
C27_EmptyLayerIsOneError ==
  (Done /\ InRan("entities") /\ Data.kind = "object" /\ Entities(Data) = <<>>)
  => /\ ~Raised
     /\ Cardinality(ErrorLines) = 1
     /\ \A j \in ErrorLines :
          out[j].check = "entities" /\ out[j].f.kind = "NoEntities"
     /\ InRan("observations") /\ InRan("relations")
     /\ exit_code = 2
C27_Witness ==
  /\ Done /\ layer = "c1" /\ Data.kind = "object" /\ Data.ents.k = "absent"
  /\ ran = AllChecks /\ exit_code = 2
  /\ \E j \in ErrorLines : out[j].f.kind = "NoEntities"

\* the lines that report two observations of one entity with the same id
DuplicateObservationLines ==
  {j \in DOMAIN out : out[j].f.kind = "DuplicateObservationId"}
\* an entity of the document holds two observations with the same id
HasDuplicateObservation(doc) ==
  \E i \in DOMAIN Entities(doc) :
    \E k, m \in DOMAIN ObsOf(Entities(doc)[i]) :
      LET o == ObsOf(Entities(doc)[i]) IN
      k # m /\ o[k].obj /\ o[m].obj /\ o[k].id # Absent /\ o[k].id = o[m].id
\* C28: two observations with the same id inside one entity produce an error
\* in the C1 validator and no finding in the C2 and C3 validators (stated for
\* the runs in which no check raises).
C28_ObservationIdsUniqueInC1Only ==
  (Done /\ ~Raised /\ InRan("observations") /\ HasDuplicateObservation(Data))
  => IF layer = "c1"
     THEN \E j \in DuplicateObservationLines : out[j].sev = "ERROR"
     ELSE DuplicateObservationLines = {}

\* the relation graph of the C1 document has a cycle, a self-loop included
HasCycle(doc) ==
  \E x \in IdsOf(doc) :
    Reaches(RelationEdges(doc), x, x, Cardinality(IdsOf(doc)))
\* C29: a C1 run reports at least one circular-dependency warning if and only
\* if the graph of the relations between known system ids contains a cycle.
C29_CycleWarningIffCycle ==
  (Done /\ layer = "c1" /\ LineageOk)
  => ((\E j \in CycleLines : out[j].sev = "WARNING") <=> HasCycle(Data))

\* the entities of the parent document no entity of the document refers to
UncoveredParents ==
  IdsOf(ParentDoc) \ {Entities(Data)[i].ref : i \in {k \in DOMAIN Entities(Data) :
                                                      Entities(Data)[k].obj}}
\* C30: a C2 or C3 run exits with code 0 only if every entity of the parent
\* document is referred to by an entity of the document, and each parent
\* entity that is not draws exactly one warning, also when the run has errors.
C30_UncoveredParentIsWarned ==
  (Done /\ layer \in {"c2", "c3"} /\ LineageOk)
  => /\ exit_code = 0 => UncoveredParents = {}
     /\ \A p \in UncoveredParents :
          Cardinality({j \in WarningLines :
                         out[j].f.kind = "ParentHasNoChildren" /\ out[j].f.who = p}) = 1

\* ------------------------------------------------------- validate-init.py
\* init.json as validate-init.py reads it:
\*   kind          "missing" | "invalid" | "number" | "object"
\*   metadata      [k |-> "absent"|"obj", schema_version, has (which of
\*                 generator, generated_by, melly_version are present),
\*                 timestamp, generated_at (timestamps, see TsIso)]
\*   repositories  [k |-> "absent"|"nonlist"|"list", v |-> Seq]
\* A repository: [obj, path, name, manifests [k, v], disk]; disk is what
\* os.path finds at path: "none", "file" or "dir".
\* A manifest: [obj, type, path, data, found]; data is "absent", "nonobj",
\* "named" (an object with a name) or "unnamed"; found is
\* os.path.exists(os.path.join(repo_path, manifest_path)).

\* SEMVER_PATTERN.match(s) for ^\d+\.\d+\.\d+$: $ also matches before one
\* trailing newline
SEMVER_PATTERN_match(s) ==
  LET digit(c) == c \in {"0", "1", "2", "3", "4", "5", "6", "7", "8", "9"}
      core(u) == \E i, j \in 1..Len(u) :
                   /\ 1 < i /\ i + 1 < j /\ j < Len(u)
                   /\ u[i] = "." /\ u[j] = "."
                   /\ \A k \in (1..Len(u)) \ {i, j} : digit(u[k])
  IN \/ core(s)
     \/ Len(s) > 1 /\ s[Len(s)] = "\n" /\ core(SubSeq(s, 1, Len(s) - 1))

validate_schema_structure(data) ==
  IF data.kind # "object" THEN Result(Raise(Acc0, "TypeError"))
  ELSE IF data.metadata.k = "absent"
  THEN Result(AddE(Acc0, <<F("MissingField", <<>>, <<"metadata">>)>>))
  ELSE
    LET metadata == data.metadata
        present == [schema_version |-> metadata.schema_version # Absent,
                    generator |-> "generator" \in metadata.has,
                    generated_by |-> "generated_by" \in metadata.has,
                    timestamp |-> metadata.timestamp.k # "absent",
                    melly_version |-> "melly_version" \in metadata.has]
        a1 == AddE(Acc0, MissingFields(
                <<"schema_version", "generator", "generated_by", "timestamp",
                  "melly_version">>, present, <<"metadata">>))
        a2 == IF metadata.schema_version = Absent THEN a1
              ELSE IF ~IsStr(metadata.schema_version) THEN Raise(a1, "TypeError")
              ELSE IF SEMVER_PATTERN_match(metadata.schema_version) THEN a1
              ELSE AddE(a1, <<F("InvalidSchemaVersion", <<>>, metadata.schema_version)>>)
        a3 == IF metadata.timestamp.k = "absent" THEN a2
              ELSE IF parse_ts(metadata.timestamp).exc # "none"
              THEN AddE(a2, <<F("InvalidTimestampFormat", <<>>, <<>>)>>)
              ELSE a2
        a4 == IF data.repositories.k = "absent"
              THEN AddE(a3, <<F("MissingField", <<>>, <<"repositories">>)>>)
              ELSE IF data.repositories.k # "list"
              THEN AddE(a3, <<F("NotAnArray", <<>>, <<"repositories">>)>>)
              ELSE IF data.repositories.v = <<>>
              THEN AddE(a3, <<F("NoRepositories", <<>>, <<>>)>>)
              ELSE a3
    IN IF a2.exc # "none" THEN Result(a2) ELSE Result(a4)

validate_repository_paths(repositories) ==
  LET RECURSIVE loop(_, _, _, _)
      \* acc.seen is seen_paths
      loop(acc, seen_names, idx, repos) ==
        IF repos = <<>> \/ acc.exc # "none" THEN acc
        ELSE
          LET repo == Head(repos)
              rest(a, names) == loop(a, names, idx + 1, Tail(repos))
          IN
          IF ~repo.obj
          THEN rest(AddE(acc, <<F("NotAnObject", Idx(idx), <<>>)>>), seen_names)
          ELSE IF repo.path = Absent
          THEN rest(AddE(acc, <<F("MissingField", Idx(idx), <<"path">>)>>), seen_names)
          ELSE IF ~IsStr(repo.path) THEN Raise(acc, "TypeError")
          ELSE IF ~(repo.path # <<>> /\ repo.path[1] = "/")
          THEN rest(AddE(acc, <<F("PathNotAbsolute", <<>>, repo.path)>>), seen_names)
          ELSE
            LET a1 == IF repo.path \in acc.seen
                      THEN AddE(acc, <<F("DuplicatePath", <<>>, repo.path)>>)
                      ELSE acc
                a2 == [a1 EXCEPT !.seen = @ \cup {repo.path}]
            IN IF repo.disk = "none"
               THEN rest(AddE(a2, <<F("PathDoesNotExist", <<>>, repo.path)>>), seen_names)
               ELSE
                 LET a3 == IF repo.disk # "dir"
                           THEN AddE(a2, <<F("PathNotADirectory", <<>>, repo.path)>>)
                           ELSE a2
                 IN IF repo.name = Absent THEN rest(a3, seen_names)
                    ELSE rest(IF repo.name \in seen_names
                              THEN AddW(a3, <<F("DuplicateName", <<>>, repo.name)>>)
                              ELSE a3,
                              seen_names \cup {repo.name})
  IN Result(loop(Acc0, {}, 0, repositories))

validate_package_manifests(repositories) ==
  LET ALLOWED_MANIFEST_TYPES ==
        {"npm", "composer", "cargo", "go-mod", "gradle", "maven",
         "requirements-txt", "pyproject-toml", "gemfile", "unknown"}
      isabs(path) == path # <<>> /\ path[1] = "/"
      \* the body of the loop over the manifests of repo
      step(acc, idx, repo, manifest) ==
        IF ~manifest.obj
        THEN AddE(acc, <<F("NotAnObject", Idx(idx), Get(repo.name, <<"unknown">>))>>)
        ELSE
          LET present == [type |-> manifest.type # Absent,
                          path |-> manifest.path # Absent,
                          data |-> manifest.data # "absent"]
              a1 == AddE(acc, MissingFields(<<"type", "path", "data">>, present, Idx(idx)))
              a2 == IF manifest.type # Absent
                       /\ ~InWords(manifest.type, ALLOWED_MANIFEST_TYPES)
                    THEN AddW(a1, <<F("UnknownType", <<>>, manifest.type)>>)
                    ELSE a1
              a3 == IF manifest.path = Absent THEN a2
                    ELSE IF ~IsStr(manifest.path) THEN Raise(a2, "TypeError")
                    ELSE IF isabs(manifest.path)
                    THEN AddE(a2, <<F("PathNotRelative", <<>>, manifest.path)>>)
                    ELSE IF ~Truthy(repo.path) THEN a2
                    ELSE IF ~IsStr(repo.path) THEN Raise(a2, "TypeError")
                    ELSE IF ~manifest.found
                    THEN AddW(a2, <<F("ManifestNotFound", repo.path, manifest.path)>>)
                    ELSE a2
              a4 == IF manifest.data = "absent" THEN a3
                    ELSE IF manifest.data = "nonobj"
                    THEN AddE(a3, <<F("DataNotAnObject", <<>>, <<>>)>>)
                    ELSE IF manifest.type \in {<<"npm">>, <<"composer">>}
                            /\ manifest.data = "unnamed"
                    THEN AddW(a3, <<F("ManifestWithoutName", <<>>, manifest.type)>>)
                    ELSE a3
          IN IF a3.exc # "none" THEN a3 ELSE a4
      RECURSIVE inner(_, _, _, _)
      inner(acc, idx, repo, manifests) ==
        IF manifests = <<>> \/ acc.exc # "none" THEN acc
        ELSE inner(step(acc, idx, repo, Head(manifests)), idx + 1, repo, Tail(manifests))
      RECURSIVE outer(_, _)
      outer(acc, repos) ==
        IF repos = <<>> \/ acc.exc # "none" THEN acc
        ELSE
          LET repo == Head(repos) IN
          IF ~repo.obj \/ repo.manifests.k = "absent" THEN outer(acc, Tail(repos))
          ELSE IF repo.manifests.k # "list"
          THEN outer(AddE(acc, <<F("NotAnArray", Get(repo.name, <<"unknown">>),
                                   <<"manifests">>)>>), Tail(repos))
          ELSE outer(inner(acc, 0, repo, repo.manifests.v), Tail(repos))
  IN Result(outer(Acc0, repositories))

\* validate_timestamps(metadata) when datetime.now(timezone.utc) is now
validate_timestamps(metadata, now) ==
  IF metadata.k = "absent" \/ metadata.timestamp.k = "absent" THEN Result(Acc0)
  ELSE
    LET timestamp == parse_ts(metadata.timestamp) IN
    IF timestamp.exc # "none" THEN Result(Acc0)
    ELSE IF ~timestamp.aware THEN Result(Raise(Acc0, "TypeError"))
    ELSE
      LET a1 == IF timestamp.t > now
                THEN AddW(Acc0, <<F("TimestampInFuture", <<>>, <<>>)>>)
                ELSE Acc0
      IN IF metadata.generated_at.k = "absent" THEN Result(a1)
         ELSE
           LET generated_at == parse_ts(metadata.generated_at)
               diff == IF timestamp.t >= generated_at.t
                       THEN timestamp.t - generated_at.t
                       ELSE generated_at.t - timestamp.t
           IN IF generated_at.exc # "none"
              THEN Result(AddW(a1, <<F("InvalidGeneratedAt", <<>>, <<>>)>>))
              ELSE IF generated_at.aware # timestamp.aware
              THEN Result(Raise(a1, "TypeError"))
              ELSE IF diff > 1
              THEN Result(AddW(a1, <<F("GeneratedAtDiffers", <<>>, <<>>)>>))
              ELSE Result(a1)

\* os.path.exists(init_file) and json.load(f) of main()
InitReadFile ==
  /\ pc = "start"
  /\ layer = "init"
  /\ IF docs[layer].kind = "missing"
     THEN /\ out' = Append(out, Line("NOTE", "input", F("NoInitFile", <<>>, <<>>)))
          /\ exit_code' = 0
          /\ pc' = "done"
     ELSE IF docs[layer].kind = "invalid"
     THEN /\ out' = Append(out, Line("ERROR", "input", F("InvalidJSON", <<>>, <<>>)))
          /\ exit_code' = 2
          /\ pc' = "done"
     ELSE /\ pc' = "schema"
          /\ UNCHANGED <<out, exit_code>>
  /\ UNCHANGED <<docs, layer, has_errors, has_warnings, ran, lineage>>

\* "1. Validate schema structure" of main() and the return that follows it
InitCheckSchema ==
  /\ pc = "schema"
  /\ LET r == validate_schema_structure(docs[layer]) IN
     IF r.exc # "none" THEN Crash("schema", r.exc)
     ELSE IF ~r.valid
     THEN /\ has_errors' = TRUE
          /\ out' = out \o Lines("ERROR", "schema", r.errors)
          /\ exit_code' = 2
          /\ pc' = "done"
          /\ UNCHANGED has_warnings
     ELSE /\ pc' = "paths"
          /\ UNCHANGED <<has_errors, has_warnings, out, exit_code>>
  /\ ran' = Append(ran, "schema")
  /\ UNCHANGED <<docs, layer, lineage>>

\* "2. Validate repository paths" of main()
InitCheckPaths ==
  /\ pc = "paths"
  /\ Collect("paths", validate_repository_paths(docs[layer].repositories.v), "manifests")
  /\ ran' = Append(ran, "paths")
  /\ UNCHANGED <<docs, layer, lineage>>

\* "3. Validate package manifests" of main()
InitCheckManifests ==
  /\ pc = "manifests"
  /\ Collect("manifests", validate_package_manifests(docs[layer].repositories.v),
             "timestamps")
  /\ ran' = Append(ran, "manifests")
  /\ UNCHANGED <<docs, layer, lineage>>

\* "4. Validate timestamps" of main(): the clock is read in the check
InitCheckTimestamps ==
  /\ pc = "timestamps"
  /\ \E now \in 1..MaxT :
       Collect("timestamps", validate_timestamps(docs[layer].metadata, now), "count")
  /\ ran' = Append(ran, "timestamps")
  /\ UNCHANGED <<docs, layer, lineage>>

\* "No manifests warning" of main()
InitCountManifests ==
  /\ pc = "count"
  /\ LET RECURSIVE total_manifests(_)
         \* sum(len(repo.get("manifests", [])) for repo in repositories)
         total_manifests(repos) ==
           IF repos = <<>> THEN [exc |-> "none", v |-> 0]
           ELSE IF ~Head(repos).obj THEN [exc |-> "AttributeError", v |-> 0]
           ELSE IF Head(repos).manifests.k = "nonlist" THEN [exc |-> "TypeError", v |-> 0]
           ELSE LET rest == total_manifests(Tail(repos)) IN
                [rest EXCEPT !.v = @ + Len(Head(repos).manifests.v)]
         n == total_manifests(docs[layer].repositories.v)
     IN Collect("count",
                [exc |-> n.exc, valid |-> TRUE, errors |-> <<>>,
                 warnings |-> IF n.v = 0 THEN <<F("NoManifests", <<>>, <<>>)>> ELSE <<>>],
                "exit")
  /\ ran' = Append(ran, "count")
  /\ UNCHANGED <<docs, layer, lineage>>

NextInit ==
  \/ InitReadFile
  \/ InitCheckSchema
  \/ InitCheckPaths
  \/ InitCheckManifests
  \/ InitCheckTimestamps
  \/ InitCountManifests
  \/ Exit

\* the init.json files a run of validate-init.py is started on
InitDocs ==
  LET semver == <<"1", ".", "0", ".", "0">>
      fields == {"generator", "generated_by", "melly_version"}
      m0 == [obj |-> TRUE, type |-> <<"npm">>, path |-> <<"p">>,
             data |-> "named", found |-> TRUE]
      r0 == [obj |-> TRUE, path |-> RepoA, name |-> Absent,
             manifests |-> List(<<m0>>), disk |-> "dir"]
      with(m) == <<[r0 EXCEPT !.manifests = m]>>
      Manifests ==
        {NoColl, NonList, List(<<>>), List(<<m0, m0>>)}
        \cup {List(<<m>>) : m \in
               {[m0 EXCEPT !.obj = FALSE], [m0 EXCEPT !.type = Absent],
                [m0 EXCEPT !.type = <<"weird">>], [m0 EXCEPT !.path = Absent],
                [m0 EXCEPT !.path = Num], [m0 EXCEPT !.path = RepoA],
                [m0 EXCEPT !.found = FALSE], [m0 EXCEPT !.data = "absent"],
                [m0 EXCEPT !.data = "nonobj"], [m0 EXCEPT !.data = "unnamed"],
                [m0 EXCEPT !.data = "unnamed", !.type = <<"cargo">>]}}
      Repositories ==
        {NoColl, NonList, List(<<>>), List(<<r0>>), List(<<r0, r0>>),
         List(<<[r0 EXCEPT !.obj = FALSE]>>),
         List(<<[r0 EXCEPT !.path = Absent]>>),
         List(<<[r0 EXCEPT !.path = Num]>>),
         List(<<[r0 EXCEPT !.path = <<"r">>, !.disk = "none"]>>),
         List(<<[r0 EXCEPT !.disk = "none"]>>),
         List(<<[r0 EXCEPT !.disk = "file"]>>),
         List(<<[r0 EXCEPT !.name = <<"n">>],
                [r0 EXCEPT !.name = <<"n">>, !.path = <<"/", "b">>]>>)}
        \cup {List(with(m)) : m \in Manifests}
      Timestamps == {TsAbsent, TsNull, TsBad, TsIso(1, "naive")}
                    \cup {TsIso(t, "Z") : t \in 1..MaxT}
      Metadata ==
        {[k |-> "absent", schema_version |-> Absent, has |-> {},
          timestamp |-> TsAbsent, generated_at |-> TsAbsent]}
        \cup {[k |-> "obj", schema_version |-> v, has |-> h, timestamp |-> ts,
               generated_at |-> g] :
                v \in {semver, <<"1", ".", "0">>, <<"v", "1", ".", "0", ".", "0">>,
                       Num, Absent},
                h \in {fields, fields \ {"generator"}},
                ts \in Timestamps, g \in Timestamps}
      file(kind) == [kind |-> kind, metadata |-> CHOOSE m \in Metadata : m.k = "absent",
                     repositories |-> NoColl]
  IN {file("missing"), file("invalid"), file("number")}
     \cup {[kind |-> "object", metadata |-> m, repositories |-> r] :
             m \in Metadata, r \in Repositories}

InitInit ==
  /\ \E d \in InitDocs : docs = [l \in {"init"} |-> d]
  /\ InitRunState("init")

SpecInit == InitInit /\ [][NextInit]_vars

\* the lines of out a check wrote
LinesOf(check) == SelectSeq(out, LAMBDA l : l.check = check)
\* C21: a run of a validator is a function of its documents alone; for the
\* init validator, the findings of its timestamp check are those the check
\* gives on the same init.json at any other time of the run.
C21_InitRunIndependentOfClock ==
  (Done /\ layer = "init" /\ ~Raised /\ InRan("timestamps"))
  => \A now \in 1..MaxT :
       LinesOf("timestamps")
         = Lines("WARNING", "timestamps",
                 validate_timestamps(docs[layer].metadata, now).warnings)

InitChecks == <<"schema", "paths", "manifests", "timestamps", "count">>
\* C23: a failing schema or structure check never causes the checks after it
\* to be skipped; in the init validator, a run that read its document and in
\* which no check raised has run all of its checks.
C23_FailingCheckSkipsNothing ==
  (Done /\ layer = "init" /\ ~Raised /\ InRan("schema")) => ran = InitChecks
====
